---- MODULE Spec2Model ----
(***************************************************************************)
(* Code graph indexer of papr-cli: identity assignment (hash-generator),   *)
(* the Python extractor (base-parser / python-parser), the graph           *)
(* accumulator and content synthesizer (graph-builder) and the indexing    *)
(* orchestrator (code-indexer).                                            *)
(*                                                                         *)
(* Strings are sequences of one-character strings, so that sanitizing,     *)
(* concatenation and prefix tests are computed character by character.     *)
(***************************************************************************)
EXTENDS Integers, Sequences, FiniteSets, TLC

VARIABLES
    idType,     \* generateNodeId: nodeType of the latest call
    idKey,      \* generateNodeId: key values <<s1, s2, n>> of the latest call
    idRet,      \* generateNodeId: string returned by the latest call
    idCalled,   \* generateNodeId: TRUE once a call has returned
    srcPath,    \* indexFile: path of the file being indexed
    srcTree,    \* indexFile: the syntax tree of the file's text
    clock,      \* the wall clock read by new Date()
    parsed,     \* indexFile: parseResult of the latest run (<<>> before any)
    store,      \* the memories the knowledge store has been handed, in order
    gb,         \* a GraphBuilder: [nodes, relationships, nodeIndex]
    gbLog,      \* every node handed to gb.addNodes since construction or clear()
    gbRelLog,   \* every relationship handed to gb.addRelationships since then
    filePaths,  \* indexFiles: the batch of paths
    options,    \* indexFiles: the options passed through to shouldIndexFile
    initialized,\* CodeIndexer.initialized
    pos,        \* indexFiles: number of paths the for loop has taken
    pc,         \* indexFiles/indexFile: where control is
    results,    \* indexFiles: the summary being accumulated
    outcomes,   \* what happened to each file taken so far, in batch order
    addCalls,   \* every memory handed to the store's add operation, in order
    events,     \* what indexFiles has done so far: <<step, batch position>>
    faults,     \* the failures the environment can produce in this run
    dirTree,    \* handleIndexCodebase: the directory, [path, entries]
    response,   \* handleIndexCodebase: what it has answered (<<>> before)
    callers,    \* initialize(): where each pending call stands
    schemaStarts,    \* how often SchemaManager.initializeSchema was started
    createRequests,  \* how many POST /v1/schemas requests reached the store
    serverSchemas,   \* the ids of the CodeGraph schemas the store holds
    schemaCacheFile  \* ~/.papr/code-schema-cache.json

idVars  == <<idType, idKey, idRet, idCalled>>
exVars  == <<srcPath, srcTree, clock, parsed, store>>
gbVars  == <<gb, gbLog, gbRelLog>>
ixVars  == <<filePaths, options, initialized, pos, pc, results, outcomes,
             addCalls, events>>
envVars == <<faults>>
ixVarsButPc == <<filePaths, options, initialized, pos, results, outcomes,
                 addCalls, events>>
mcpVars == <<dirTree, response>>
smVars  == <<callers, schemaStarts, createRequests, serverSchemas, schemaCacheFile>>
vars == <<idVars, exVars, gbVars, ixVars, envVars, mcpVars, smVars>>

\* what the actions of one component leave alone
IdFrame == <<exVars, gbVars, ixVars, envVars, mcpVars, smVars>>
ExFrame == <<idVars, gbVars, ixVars, envVars, mcpVars, smVars>>
GbFrame == <<idVars, exVars, ixVars, envVars, mcpVars, smVars>>
BatchFrame == <<idVars, gbVars, envVars, mcpVars, smVars>>

----------------------------------------------------------------------------
(* Bounds *)

MaxPathLen == 2      \* longest generated file path / first key string
MaxNameLen == 1      \* longest generated symbol name / second key string
MaxLine    == 3      \* largest generated line number
MaxStmts   == 2      \* most top-level statements in a generated file
MaxImports == 15     \* most import statements in a generated import-only file
MaxRuns    == 2      \* most indexFile runs over the same file
MaxClock   == 2      \* latest clock reading
MaxAdded   == 4      \* most nodes handed to one GraphBuilder before clear()
MaxCall    == 2      \* most nodes or relationships in one addNodes/addRelationships call
MaxRels    == 3      \* most relationships held by the GraphBuilder
MaxBatch   == 3      \* most paths in one indexFiles call
MaxFiles   == 11     \* most files in a generated flat directory
MaxCallers == 2      \* most calls of initialize()/indexFile() pending at once
MaxStarts  == 3      \* most starts of initializeSchema in one process
MaxDepth   == 8      \* most segments of a generated deep path

----------------------------------------------------------------------------
(* Characters *)

UpperChars == <<"A","B","C","D","E","F","G","H","I","J","K","L","M",
                "N","O","P","Q","R","S","T","U","V","W","X","Y","Z">>
LowerChars == <<"a","b","c","d","e","f","g","h","i","j","k","l","m",
                "n","o","p","q","r","s","t","u","v","w","x","y","z">>
DigitChars == <<"0","1","2","3","4","5","6","7","8","9">>

Range(s) == {s[i] : i \in DOMAIN s}

\* character class [a-zA-Z0-9_-] of the first replace() in sanitizeForId
IsIdChar(c) ==
    \/ c \in Range(UpperChars)
    \/ c \in Range(LowerChars)
    \/ c \in Range(DigitChars)
    \/ c = "_"
    \/ c = "-"

\* String.prototype.toLowerCase on one character
toLowerCase(c) ==
    IF c \in Range(UpperChars)
    THEN LowerChars[CHOOSE i \in DOMAIN UpperChars : UpperChars[i] = c]
    ELSE c

LowerAll(s) == [i \in DOMAIN s |-> toLowerCase(s[i])]

\* template-literal rendering of a non-negative integer
RECURSIVE NumToStr(_)
NumToStr(n) ==
    IF n < 10 THEN <<DigitChars[n + 1]>>
    ELSE NumToStr(n \div 10) \o <<DigitChars[(n % 10) + 1]>>

----------------------------------------------------------------------------
(* sanitizeForId *)

ReplaceSpecial(c) == IF IsIdChar(c) THEN c ELSE "_"

\* .replace(/[^a-zA-Z0-9_-]/g, '_')
ReplaceAllSpecial(s) == [i \in DOMAIN s |-> ReplaceSpecial(s[i])]

\* .replace(/_{2,}/g, '_')
RECURSIVE CollapseUnderscores(_)
CollapseUnderscores(s) ==
    IF Len(s) < 2 THEN s
    ELSE IF s[1] = "_" /\ s[2] = "_" THEN CollapseUnderscores(Tail(s))
    ELSE <<s[1]>> \o CollapseUnderscores(Tail(s))

RECURSIVE StripLeading(_)
StripLeading(s) ==
    IF s # <<>> /\ s[1] = "_" THEN StripLeading(Tail(s)) ELSE s

RECURSIVE StripTrailing(_)
StripTrailing(s) ==
    IF s # <<>> /\ s[Len(s)] = "_"
    THEN StripTrailing(SubSeq(s, 1, Len(s) - 1)) ELSE s

\* .replace(/^_+|_+$/g, '')
TrimUnderscores(s) == StripTrailing(StripLeading(s))

STR_unknown == <<"u","n","k","n","o","w","n">>

\* sanitizeForId without its first replace(): special characters survive
sanitizeForId_KeepSpecial(str) ==
    IF str = <<>> THEN STR_unknown
    ELSE LowerAll(TrimUnderscores(CollapseUnderscores(str)))

sanitizeForId(str) ==
    IF str = <<>> THEN STR_unknown
    ELSE LowerAll(TrimUnderscores(CollapseUnderscores(ReplaceAllSpecial(str))))

----------------------------------------------------------------------------
(* generateNodeId *)

Str_ == <<"_">>

\* The properties object handed to generateNodeId.  String members are
\* character sequences (an absent or empty member is <<>>, both are falsy
\* for sanitizeForId); numeric members are naturals.
NoProps ==
    [path |-> <<>>, filePath |-> <<>>, name |-> <<>>, moduleName |-> <<>>,
     calleeName |-> <<>>, scope |-> <<>>, version |-> <<>>,
     line |-> 0, startLine |-> 0]

WithProps(over) ==
    [f \in DOMAIN NoProps |-> IF f \in DOMAIN over THEN over[f] ELSE NoProps[f]]

STR_latest == <<"l","a","t","e","s","t">>

\* crypto.createHash('md5').update(s).digest('hex'), kept symbolic: the
\* digest of s is a one-element string naming s (collision free).
Md5Hex(s) == <<ToString(s)>>

\* JSON.stringify(properties), reduced to the member values in member order
PropertyString(properties) ==
    <<properties.path, properties.filePath, properties.name,
      properties.moduleName, properties.calleeName, properties.scope,
      properties.version, properties.line, properties.startLine>>

\* nodeType.toLowerCase() for the labels outside the switch
LowerLabel(nodeType) ==
    IF nodeType = "Module" THEN <<"m","o","d","u","l","e">> ELSE <<nodeType>>

generateNodeId(nodeType, properties) ==
    CASE nodeType = "File" ->
           <<"f","i","l","e","_">> \o sanitizeForId(properties.path)
      [] nodeType = "Function" ->
           <<"f","u","n","c","_">> \o sanitizeForId(properties.filePath)
             \o Str_ \o sanitizeForId(properties.name)
             \o Str_ \o NumToStr(properties.startLine)
      [] nodeType = "Class" ->
           <<"c","l","a","s","s","_">> \o sanitizeForId(properties.filePath)
             \o Str_ \o sanitizeForId(properties.name)
      [] nodeType = "Import" ->
           <<"i","m","p","o","r","t","_">> \o sanitizeForId(properties.filePath)
             \o Str_ \o sanitizeForId(properties.moduleName)
      [] nodeType = "Export" ->
           <<"e","x","p","o","r","t","_">> \o sanitizeForId(properties.filePath)
             \o Str_ \o sanitizeForId(properties.name)
      [] nodeType = "Variable" ->
           <<"v","a","r","_">> \o sanitizeForId(properties.filePath)
             \o Str_ \o sanitizeForId(properties.name)
             \o Str_ \o properties.scope
             \o Str_ \o NumToStr(properties.line)
      [] nodeType = "CallSite" ->
           <<"c","a","l","l","_">> \o sanitizeForId(properties.filePath)
             \o Str_ \o sanitizeForId(properties.calleeName)
             \o Str_ \o NumToStr(properties.line)
      [] nodeType = "Decorator" ->
           <<"d","e","c","_">> \o sanitizeForId(properties.filePath)
             \o Str_ \o sanitizeForId(properties.name)
             \o Str_ \o NumToStr(properties.line)
      [] nodeType = "Comment" ->
           <<"c","o","m","m","e","n","t","_">> \o sanitizeForId(properties.filePath)
             \o Str_ \o NumToStr(properties.startLine)
      [] nodeType = "Package" ->
           <<"p","k","g","_">> \o sanitizeForId(properties.name)
             \o Str_ \o sanitizeForId(IF properties.version = <<>>
                                       THEN STR_latest ELSE properties.version)
      [] OTHER ->
           LowerLabel(nodeType) \o Str_ \o Md5Hex(PropertyString(properties))


----------------------------------------------------------------------------
(* Identity assigner: calls of generateNodeId on generated keys *)

RECURSIVE StringsUpTo(_, _)
StringsUpTo(chars, n) ==
    IF n = 0 THEN {<<>>}
    ELSE LET shorter == StringsUpTo(chars, n - 1)
         IN  shorter \cup {s \o <<c>> : s \in shorter, c \in chars}

STR_a_py == <<"a",".","p","y">>
STR_f    == <<"f">>

NodeLabels ==
    {"File", "Function", "Class", "Variable", "Import", "Export",
     "CallSite", "Decorator", "Comment", "Package"}

KeyTypes == NodeLabels \cup {"Module"}
KeyPaths == StringsUpTo({"a", "A", ".", "_"}, MaxPathLen) \cup {STR_a_py}
KeyNames == StringsUpTo({"a", "A", "_"}, MaxNameLen) \cup {STR_f}
KeyLines == 0 .. MaxLine \cup {12}

STR_global == <<"g","l","o","b","a","l">>

\* The properties object a caller builds for nodeType from the key values
\* (s1, s2, n): each label reads its own members.
KeyProps(nodeType, s1, s2, n) ==
    CASE nodeType = "File"      -> WithProps([path |-> s1])
      [] nodeType = "Function"  -> WithProps([filePath |-> s1, name |-> s2, startLine |-> n])
      [] nodeType = "Class"     -> WithProps([filePath |-> s1, name |-> s2])
      [] nodeType = "Import"    -> WithProps([filePath |-> s1, moduleName |-> s2])
      [] nodeType = "Export"    -> WithProps([filePath |-> s1, name |-> s2])
      [] nodeType = "Variable"  -> WithProps([filePath |-> s1, name |-> s2,
                                              scope |-> STR_global, line |-> n])
      [] nodeType = "CallSite"  -> WithProps([filePath |-> s1, calleeName |-> s2, line |-> n])
      [] nodeType = "Decorator" -> WithProps([filePath |-> s1, name |-> s2, line |-> n])
      [] nodeType = "Comment"   -> WithProps([filePath |-> s1, startLine |-> n])
      [] nodeType = "Package"   -> WithProps([name |-> s1, version |-> s2])
      [] OTHER                  -> WithProps([path |-> s1, name |-> s2, line |-> n])

IdIdle ==
    /\ idType = "File"
    /\ idKey = <<<<>>, <<>>, 0>>
    /\ idRet = <<>>
    /\ idCalled = FALSE

ExIdle ==
    /\ srcPath = <<>>
    /\ srcTree = <<>>
    /\ clock = 0
    /\ parsed = <<>>
    /\ store = <<>>

GbIdle ==
    /\ gb = [nodes |-> <<>>, relationships |-> <<>>, nodeIndex |-> <<>>]
    /\ gbLog = <<>>
    /\ gbRelLog = <<>>

\* shouldIndexFile: the defaults of the options it destructures
DefaultOptions == [includeTests |-> FALSE, includeGenerated |-> FALSE]

\* indexFiles: the summary before the first file
NewResults == [success |-> 0, failed |-> 0, skipped |-> 0,
               errors |-> <<>>, indexed |-> <<>>]

BatchIdle ==
    /\ filePaths = <<>>
    /\ options = DefaultOptions
    /\ initialized = FALSE
    /\ pos = 0
    /\ pc = "idle"
    /\ results = NewResults
    /\ outcomes = <<>>
    /\ addCalls = <<>>
    /\ events = <<>>
    /\ faults = {}

McpIdle ==
    /\ dirTree = <<>>
    /\ response = <<>>

\* no cache file: loadCachedSchema returns null
NoCacheFile == [schemaId |-> <<>>, fresh |-> FALSE]

SmIdle ==
    /\ callers = <<>>
    /\ schemaStarts = 0
    /\ createRequests = 0
    /\ serverSchemas = <<>>
    /\ schemaCacheFile = NoCacheFile

InitId == IdIdle /\ ExIdle /\ GbIdle /\ BatchIdle /\ McpIdle /\ SmIdle

\* one call generateNodeId(t, KeyProps(t, k)) and its return value
CallGenerateNodeId(t, k) ==
    /\ idType' = t
    /\ idKey' = k
    /\ idRet' = generateNodeId(t, KeyProps(t, k[1], k[2], k[3]))
    /\ idCalled' = TRUE
    /\ UNCHANGED IdFrame

\* successive calls differ from the previous one in one argument
CallWithType == \E t \in KeyTypes : CallGenerateNodeId(t, idKey)
CallWithPath == \E p \in KeyPaths : CallGenerateNodeId(idType, <<p, idKey[2], idKey[3]>>)
CallWithName == \E n \in KeyNames : CallGenerateNodeId(idType, <<idKey[1], n, idKey[3]>>)
CallWithLine == \E l \in KeyLines : CallGenerateNodeId(idType, <<idKey[1], idKey[2], l>>)

NextId == CallWithType \/ CallWithPath \/ CallWithName \/ CallWithLine

SpecId == InitId /\ [][NextId]_vars

STR_func_a_py_f_3 == <<"f","u","n","c","_","a","_","p","y","_","f","_","3">>

\* C1: generateNodeId depends on nothing but (label, key properties); the
\* call generateNodeId('Function', {filePath:'a.py', name:'f', startLine:3})
\* returns exactly 'func_a_py_f_3', whatever calls came before it.
C1_Determinism ==
    (idCalled /\ idType = "Function" /\ idKey = <<STR_a_py, STR_f, 3>>)
        => idRet = STR_func_a_py_f_3

C1_Witness ==
    idCalled /\ idType = "Function" /\ idKey = <<STR_a_py, STR_f, 3>>
             /\ idRet = STR_func_a_py_f_3

\* the keys C3 speaks of: a known, non-empty file path
KnownPath(p) == p # <<>> /\ p # STR_unknown

\* C3: two Function keys that differ in path, name or start line, and two
\* Class keys that differ in path or name, get different IDs.
C3_Injective ==
    [][ ( /\ idCalled /\ idCalled'
          /\ idType' = idType
          /\ KnownPath(idKey[1]) /\ KnownPath(idKey'[1])
          /\ \/ idType = "Function" /\ idKey' # idKey
             \/ idType = "Class" /\ <<idKey'[1], idKey'[2]>> # <<idKey[1], idKey[2]>> )
        => idRet' # idRet ]_vars


----------------------------------------------------------------------------
(* Source trees.  A file is a path and the sequence of its top-level       *)
(* statements as the tree-sitter Python grammar exposes them.  Every        *)
(* statement is a record of one shape; members a kind does not use are      *)
(* empty.                                                                   *)
(*   function_definition : name, params, decorators, calls                  *)
(*   class_definition    : name, bases, methods, decorators                 *)
(*   import_statement    : names        (import a, b as c)                  *)
(*   import_from_statement : module, moduleKind, names  (from m import x)   *)
(* A base is [type, text] with type the node type of the argument_list      *)
(* child; an imported name is [type, text] with type dotted_name or         *)
(* aliased_import; a wildcard from-import has no names.  A call is           *)
(* [type, text] with type the node type of the call's function child, a      *)
(* decorator is [type, text] with type the node type of its expression.      *)

Item(type, text) == [type |-> type, text |-> text]

FunctionDef(name, params, decorators, calls) ==
    [kind |-> "function_definition", name |-> name, params |-> params,
     decorators |-> decorators, calls |-> calls, bases |-> <<>>,
     methods |-> <<>>, module |-> <<>>, moduleKind |-> "", names |-> <<>>]

ClassDef(name, bases, methods, decorators) ==
    [kind |-> "class_definition", name |-> name, params |-> <<>>,
     decorators |-> decorators, calls |-> <<>>, bases |-> bases,
     methods |-> methods, module |-> <<>>, moduleKind |-> "", names |-> <<>>]

ImportStmt(names) ==
    [kind |-> "import_statement", name |-> <<>>, params |-> <<>>,
     decorators |-> <<>>, calls |-> <<>>, bases |-> <<>>,
     methods |-> <<>>, module |-> <<>>, moduleKind |-> "", names |-> names]

ImportFromStmt(moduleKind, module, names) ==
    [kind |-> "import_from_statement", name |-> <<>>, params |-> <<>>,
     decorators |-> <<>>, calls |-> <<>>, bases |-> <<>>,
     methods |-> <<>>, module |-> module, moduleKind |-> moduleKind,
     names |-> names]

Max(a, b) == IF a >= b THEN a ELSE b

RECURSIVE SumSeq(_)
SumSeq(ns) == IF ns = <<>> THEN 0 ELSE Head(ns) + SumSeq(Tail(ns))

RECURSIVE Flatten(_)
Flatten(ss) == IF ss = <<>> THEN <<>> ELSE Head(ss) \o Flatten(Tail(ss))

\* Lines a statement occupies: one per decorator, the def/class line, and a
\* body of one line per call (or a single pass) / of the methods in turn.
FunctionLines(f) == Len(f.decorators) + 1 + Max(1, Len(f.calls))

StmtLines(st) ==
    CASE st.kind = "function_definition" -> FunctionLines(st)
      [] st.kind = "class_definition" ->
           Len(st.decorators) + 1 +
             Max(1, SumSeq([i \in DOMAIN st.methods |-> FunctionLines(st.methods[i])]))
      [] OTHER -> 1

\* first line (1-indexed) of the k-th statement of a sequence starting at base
StartOf(stmts, k, base) ==
    base + SumSeq([i \in 1 .. (k - 1) |-> StmtLines(stmts[i])])

\* getNodeLocation of a function_definition / class_definition node whose
\* statement (decorators included) begins at line first
Located(st, first, owner) ==
    [def |-> st,
     decoratedLine |-> first,
     startLine |-> first + Len(st.decorators),
     endLine |-> first + StmtLines(st) - 1,
     owner |-> owner]

\* the function_definition nodes under a class body, in document order
MethodsOf(cls, first) ==
    [j \in DOMAIN cls.methods |->
        Located(cls.methods[j],
                StartOf(cls.methods, j, first + Len(cls.decorators) + 1),
                cls.name)]

\* matches of the function_definition query over the whole tree
FunctionMatches(stmts) ==
    Flatten([k \in DOMAIN stmts |->
        CASE stmts[k].kind = "function_definition" ->
               <<Located(stmts[k], StartOf(stmts, k, 1), <<>>)>>
          [] stmts[k].kind = "class_definition" ->
               MethodsOf(stmts[k], StartOf(stmts, k, 1))
          [] OTHER -> <<>>])

\* matches of the class_definition query over the whole tree
ClassMatches(stmts) ==
    Flatten([k \in DOMAIN stmts |->
        IF stmts[k].kind = "class_definition"
        THEN <<Located(stmts[k], StartOf(stmts, k, 1), <<>>)>>
        ELSE <<>>])


----------------------------------------------------------------------------
(* BaseParser / PythonParser *)

\* s occurs in t as a contiguous substring (String.prototype.includes)
Includes(t, s) ==
    \E i \in 0 .. (Len(t) - Len(s)) : SubSeq(t, i + 1, i + Len(s)) = s

STR_async == <<"a","s","y","n","c">>
STR_python == <<"p","y","t","h","o","n">>
STR_def   == <<"d","e","f"," ">>

createRelationship(sourceId, targetId, type, properties) ==
    [source_node_id |-> sourceId, target_node_id |-> targetId,
     relationship_type |-> type, properties |-> properties]

\* Buffer.byteLength(content): the tree stands for the text, one unit a line
ByteLength(content) == SumSeq([k \in DOMAIN content |-> StmtLines(content[k])])

ItemTuples(items) == [i \in DOMAIN items |-> <<items[i].type, items[i].text>>]

\* the text a tree stands for, written member by member in a fixed order
RECURSIVE Utf8(_)
Utf8(content) ==
    [k \in DOMAIN content |->
        <<content[k].kind, content[k].name, content[k].params,
          ItemTuples(content[k].decorators), ItemTuples(content[k].calls),
          ItemTuples(content[k].bases), Utf8(content[k].methods),
          content[k].module, content[k].moduleKind,
          ItemTuples(content[k].names)>>]

\* generateFileHash(content)
generateFileHash(content) == Md5Hex(Utf8(content))

\* a File node whose ID also carries the time of the run
createFileNode_Timestamped(filePath, content, hash, now) ==
    [id |-> generateNodeId("File", WithProps([path |-> filePath])) \o NumToStr(now),
     label |-> "File",
     properties |-> [path |-> filePath, language |-> STR_python,
                     size |-> ByteLength(content), hash |-> hash,
                     lastModified |-> now]]

createFileNode(filePath, content, hash, now) ==
    [id |-> generateNodeId("File", WithProps([path |-> filePath])),
     label |-> "File",
     properties |-> [path |-> filePath, language |-> STR_python,
                     size |-> ByteLength(content), hash |-> hash,
                     lastModified |-> now]]

\* funcNode.parent.text.includes('async') over the texts the tree keeps
DecoratedTextHasAsync(f) ==
    \/ Includes(f.name, STR_async)
    \/ Includes(f.params, STR_async)
    \/ \E j \in DOMAIN f.decorators : Includes(f.decorators[j].text, STR_async)
    \/ \E j \in DOMAIN f.calls : Includes(f.calls[j].text, STR_async)

SelectItems(items, type) ==
    Flatten([j \in DOMAIN items |->
        IF items[j].type = type THEN <<[item |-> items[j], pos |-> j]>> ELSE <<>>])

extractCallsFromFunction(m, filePath, functionId) ==
    LET matches == SelectItems(m.def.calls, "identifier")
    IN  [j \in DOMAIN matches |->
            createRelationship(functionId,
                generateNodeId("Function",
                    WithProps([filePath |-> STR_unknown,
                               name |-> matches[j].item.text, startLine |-> 0])),
                "CALLS",
                {<<"line", m.startLine + matches[j].pos>>})]

extractDecoratorsForNode(m, filePath, targetId) ==
    LET named == SelectItems(m.def.decorators, "identifier")
    IN  [j \in DOMAIN named |->
            createRelationship(targetId,
                generateNodeId("Decorator",
                    WithProps([filePath |-> filePath,
                               name |-> named[j].item.text,
                               line |-> m.decoratedLine + named[j].pos - 1])),
                "DECORATED_WITH", {})]

FunctionIdOf(m, filePath) ==
    generateNodeId("Function",
        WithProps([filePath |-> filePath, name |-> m.def.name,
                   startLine |-> m.startLine]))

FunctionNodeOf(m, filePath) ==
    [id |-> FunctionIdOf(m, filePath),
     label |-> "Function",
     properties |-> [name |-> m.def.name,
                     signature |-> STR_def \o m.def.name \o m.def.params,
                     language |-> STR_python,
                     startLine |-> m.startLine,
                     endLine |-> m.endLine,
                     async |-> (m.def.decorators # <<>> /\ DecoratedTextHasAsync(m.def))]]

FunctionRelsOf(m, filePath) ==
    <<createRelationship(FunctionIdOf(m, filePath),
          generateNodeId("File", WithProps([path |-> filePath])), "DEFINED_IN", {})>>
      \o extractCallsFromFunction(m, filePath, FunctionIdOf(m, filePath))
      \o (IF m.def.decorators # <<>>
          THEN extractDecoratorsForNode(m, filePath, FunctionIdOf(m, filePath))
          ELSE <<>>)

extractFunctions(tree, filePath) ==
    LET matches == FunctionMatches(tree)
    IN  [nodes |-> [i \in DOMAIN matches |-> FunctionNodeOf(matches[i], filePath)],
         relationships |->
             Flatten([i \in DOMAIN matches |-> FunctionRelsOf(matches[i], filePath)])]

\* single inheritance only: every base after the first is passed over
extractBaseClasses_FirstOnly(bases) ==
    IF bases # <<>> /\ bases[1].type \in {"identifier", "attribute"}
    THEN <<bases[1].text>> ELSE <<>>

extractBaseClasses(bases) ==
    Flatten([j \in DOMAIN bases |->
        IF bases[j].type = "identifier" THEN <<bases[j].text>>
        ELSE IF bases[j].type = "attribute" THEN <<bases[j].text>>
        ELSE <<>>])

\* body children of type function_definition; a decorated method is a
\* decorated_definition child and is passed over
extractMethodsFromClass(m, filePath, classId) ==
    LET methods == MethodsOf(m.def, m.decoratedLine)
    IN  Flatten([j \in DOMAIN methods |->
            IF methods[j].def.decorators = <<>>
            THEN <<createRelationship(classId,
                       FunctionIdOf(methods[j], filePath), "HAS_METHOD", {})>>
            ELSE <<>>])

ClassIdOf(m, filePath) ==
    generateNodeId("Class", WithProps([filePath |-> filePath, name |-> m.def.name]))

\* a Class node that leaves out its language
ClassNodeOf_NoLanguage(m, filePath) ==
    [id |-> ClassIdOf(m, filePath),
     label |-> "Class",
     properties |-> [name |-> m.def.name,
                     startLine |-> m.startLine, endLine |-> m.endLine,
                     isAbstract |-> FALSE]]

ClassNodeOf(m, filePath) ==
    [id |-> ClassIdOf(m, filePath),
     label |-> "Class",
     properties |-> [name |-> m.def.name, language |-> STR_python,
                     startLine |-> m.startLine, endLine |-> m.endLine,
                     isAbstract |-> FALSE]]

ExtendsRelsOf(m, filePath) ==
    LET baseClasses == extractBaseClasses(m.def.bases)
    IN  [j \in DOMAIN baseClasses |->
            createRelationship(ClassIdOf(m, filePath),
                generateNodeId("Class",
                    WithProps([filePath |-> STR_unknown, name |-> baseClasses[j]])),
                "EXTENDS", {})]

ClassRelsOf(m, filePath) ==
    <<createRelationship(ClassIdOf(m, filePath),
          generateNodeId("File", WithProps([path |-> filePath])), "DEFINED_IN", {})>>
      \o ExtendsRelsOf(m, filePath)
      \o extractMethodsFromClass(m, filePath, ClassIdOf(m, filePath))

extractClasses(tree, filePath) ==
    LET matches == ClassMatches(tree)
    IN  [nodes |-> [i \in DOMAIN matches |-> ClassNodeOf(matches[i], filePath)],
         relationships |->
             Flatten([i \in DOMAIN matches |-> ClassRelsOf(matches[i], filePath)])]


\* matches of the two import queries: a name of type dotted_name under an
\* import_statement; a dotted_name module with a dotted_name name under an
\* import_from_statement
ImportMatches(tree) ==
    Flatten([k \in DOMAIN tree |->
        IF tree[k].kind = "import_statement"
        THEN LET named == SelectItems(tree[k].names, "dotted_name")
             IN  [j \in DOMAIN named |->
                     [moduleName |-> named[j].item.text,
                      line |-> StartOf(tree, k, 1)]]
        ELSE <<>>])

ImportFromMatches(tree) ==
    Flatten([k \in DOMAIN tree |->
        IF tree[k].kind = "import_from_statement" /\ tree[k].moduleKind = "dotted_name"
        THEN LET named == SelectItems(tree[k].names, "dotted_name")
             IN  [j \in DOMAIN named |->
                     [moduleName |-> tree[k].module,
                      importedNames |-> <<named[j].item.text>>,
                      line |-> StartOf(tree, k, 1)]]
        ELSE <<>>])

ImportIdOf(m, filePath) ==
    generateNodeId("Import",
        WithProps([filePath |-> filePath, moduleName |-> m.moduleName]))

ImportNodeOf(m, filePath) ==
    [id |-> ImportIdOf(m, filePath),
     label |-> "Import",
     properties |-> [moduleName |-> m.moduleName, line |-> m.line,
                     isWildcard |-> FALSE]]

ImportFromNodeOf(m, filePath) ==
    [id |-> ImportIdOf(m, filePath),
     label |-> "Import",
     properties |-> [moduleName |-> m.moduleName,
                     importedNames |-> m.importedNames,
                     line |-> m.line,
                     isWildcard |-> (<<"*">> \in Range(m.importedNames))]]

ImportRelOf(m, filePath) ==
    createRelationship(generateNodeId("File", WithProps([path |-> filePath])),
                       ImportIdOf(m, filePath), "IMPORTS", {})

extractImports(tree, filePath) ==
    LET plain == ImportMatches(tree)
        from  == ImportFromMatches(tree)
    IN  [nodes |->
             [i \in DOMAIN plain |-> ImportNodeOf(plain[i], filePath)]
               \o [i \in DOMAIN from |-> ImportFromNodeOf(from[i], filePath)],
         relationships |->
             [i \in DOMAIN plain |-> ImportRelOf(plain[i], filePath)]
               \o [i \in DOMAIN from |-> ImportRelOf(from[i], filePath)]]

\* BaseParser defaults: no exports, variables or comments
extractExports(tree, filePath)   == [nodes |-> <<>>, relationships |-> <<>>]
extractVariables(tree, filePath) == [nodes |-> <<>>, relationships |-> <<>>]
extractComments(tree, filePath)  == [nodes |-> <<>>, relationships |-> <<>>]

\* parseFile when neither the parse nor a query throws; now is the clock
\* reading that createFileNode stamps into lastModified
parseFile(filePath, content, now) ==
    LET fileNode  == createFileNode(filePath, content, generateFileHash(content), now)
        functions == extractFunctions(content, filePath)
        classes   == extractClasses(content, filePath)
        imports   == extractImports(content, filePath)
        exports   == extractExports(content, filePath)
        variables == extractVariables(content, filePath)
        comments  == extractComments(content, filePath)
    IN  [success |-> TRUE,
         nodes |-> <<fileNode>> \o functions.nodes \o classes.nodes
                     \o imports.nodes \o exports.nodes \o variables.nodes
                     \o comments.nodes,
         relationships |-> functions.relationships \o classes.relationships
                     \o imports.relationships \o exports.relationships
                     \o variables.relationships \o comments.relationships,
         stats |-> [functions |-> Len(functions.nodes),
                    classes |-> Len(classes.nodes),
                    imports |-> Len(imports.nodes),
                    exports |-> Len(exports.nodes),
                    variables |-> Len(variables.nodes),
                    comments |-> Len(comments.nodes)]]

----------------------------------------------------------------------------
(* GraphBuilder.  A builder is [nodes, relationships, nodeIndex]; nodeIndex *)
(* is the Map from node ID to node.                                         *)

NewGraphBuilder == [nodes |-> <<>>, relationships |-> <<>>, nodeIndex |-> <<>>]

MapSet(map, key, value) ==
    [k \in DOMAIN map \cup {key} |-> IF k = key THEN value ELSE map[k]]

\* the loop body of addNodes with the index left stale
addNode_NoIndex(b, node) ==
    IF node.id \notin DOMAIN b.nodeIndex
    THEN [b EXCEPT !.nodes = Append(@, node)]
    ELSE b

\* the loop body of addNodes
addNode(b, node) ==
    IF node.id \notin DOMAIN b.nodeIndex
    THEN [b EXCEPT !.nodes = Append(@, node),
                   !.nodeIndex = MapSet(@, node.id, node)]
    ELSE b

RECURSIVE addNodes(_, _)
addNodes(b, nodes) ==
    IF nodes = <<>> THEN b
    ELSE addNodes(addNode(b, Head(nodes)), Tail(nodes))

\* addRelationships that skips a relationship it already holds
RECURSIVE addRelationships_Dedupe(_, _)
addRelationships_Dedupe(b, relationships) ==
    IF relationships = <<>> THEN b
    ELSE addRelationships_Dedupe(
             IF \E i \in DOMAIN b.relationships : b.relationships[i] = Head(relationships)
               THEN b
               ELSE [b EXCEPT !.relationships = Append(@, Head(relationships))],
             Tail(relationships))

addRelationships(b, relationships) ==
    [b EXCEPT !.relationships = @ \o relationships]

buildGraphOverride(b) ==
    [nodes |-> b.nodes, relationships |-> b.relationships]

clear(b) == NewGraphBuilder


----------------------------------------------------------------------------
(* GraphBuilder.generateMemoryContent.  The document is the sequence of its *)
(* lines; each line records the section that wrote it and its text.         *)

TXT_File        == <<"F","i","l","e",":"," ">>
TXT_CodeFile    == <<"#"," ","C","o","d","e"," ","F","i","l","e",":"," ">>
TXT_Language    == <<"*","*","L","a","n","g","u","a","g","e",":","*","*"," ">>
TXT_Size        == <<"*","*","S","i","z","e",":","*","*"," ">>
TXT_Bytes       == <<" ","b","y","t","e","s">>
TXT_Hash        == <<"*","*","H","a","s","h",":","*","*"," ">>
TXT_Imports     == <<"#","#"," ","I","m","p","o","r","t","s"," ","(">>
TXT_Classes     == <<"#","#"," ","C","l","a","s","s","e","s"," ","(">>
TXT_Functions   == <<"#","#"," ","F","u","n","c","t","i","o","n","s"," ","(">>
TXT_Close       == <<")">>
TXT_Bullet      == <<"-"," ">>
TXT_Open        == <<" ","(">>
TXT_Comma       == <<","," ">>
TXT_AndMore     == <<".",".","."," ","a","n","d"," ">>
TXT_More        == <<" ","m","o","r","e">>
TXT_H3          == <<"#","#","#"," ">>
TXT_Lines       == <<"L","i","n","e","s"," ">>
TXT_Dash        == <<"-">>
TXT_Methods     == <<"M","e","t","h","o","d","s",":"," ">>
TXT_Extends     == <<"E","x","t","e","n","d","s",":"," ">>
TXT_Unknown     == <<"U","n","k","n","o","w","n">>
TXT_Calls       == <<"C","a","l","l","s",":"," ">>
TXT_CallsMore   == <<","," ",".",".","."," ","(">>
TXT_Decorators  == <<"D","e","c","o","r","a","t","o","r","s",":"," ","@">>
TXT_CommaAt     == <<","," ","@">>
\* three backquote characters (written by name)
TXT_Fence       == <<"BACKQUOTE","BACKQUOTE","BACKQUOTE">>
TXT_Source      == <<"#","#"," ","F","u","l","l"," ","S","o","u","r","c","e"," ","C","o","d","e">>

Line(section, text) == [section |-> section, text |-> text]

RECURSIVE Join(_, _)
Join(parts, sep) ==
    IF parts = <<>> THEN <<>>
    ELSE IF Len(parts) = 1 THEN parts[1]
    ELSE parts[1] \o sep \o Join(Tail(parts), sep)

Min(a, b) == IF a <= b THEN a ELSE b

\* Array.prototype.slice(0, n)
Slice(seq, n) == SubSeq(seq, 1, Min(n, Len(seq)))

\* nodes of a label tied to the File node by a relationship of the given type
\* (File -> node for IMPORTS, node -> File otherwise), in nodes order
FilterNodes(b, label, fileNodeId, relType) ==
    Flatten([i \in DOMAIN b.nodes |->
        IF /\ b.nodes[i].label = label
           /\ \E r \in DOMAIN b.relationships :
                 /\ b.relationships[r].relationship_type = relType
                 /\ IF relType = "IMPORTS"
                    THEN /\ b.relationships[r].source_node_id = fileNodeId
                         /\ b.relationships[r].target_node_id = b.nodes[i].id
                    ELSE /\ b.relationships[r].source_node_id = b.nodes[i].id
                         /\ b.relationships[r].target_node_id = fileNodeId
        THEN <<b.nodes[i]>> ELSE <<>>])

\* target IDs of the relationships of a node of one type, in relationship order
TargetsOf(b, sourceId, relType) ==
    Flatten([r \in DOMAIN b.relationships |->
        IF /\ b.relationships[r].source_node_id = sourceId
           /\ b.relationships[r].relationship_type = relType
        THEN <<b.relationships[r].target_node_id>> ELSE <<>>])

\* this.nodeIndex.get(id)?.properties.name || fallback
NameOrElse(b, id, fallback) ==
    IF id \in DOMAIN b.nodeIndex
       /\ "name" \in DOMAIN b.nodeIndex[id].properties
       /\ b.nodeIndex[id].properties.name # <<>>
    THEN b.nodeIndex[id].properties.name
    ELSE fallback

FindFileNode(b, filePath) ==
    Flatten([i \in DOMAIN b.nodes |->
        IF b.nodes[i].label = "File" /\ b.nodes[i].properties.path = filePath
        THEN <<b.nodes[i]>> ELSE <<>>])

ImportLine(imp) ==
    Line("import",
         TXT_Bullet \o imp.properties.moduleName
           \o (IF "importedNames" \in DOMAIN imp.properties
                  /\ Len(imp.properties.importedNames) > 0
               THEN TXT_Open \o Join(imp.properties.importedNames, TXT_Comma) \o TXT_Close
               ELSE <<>>))

\* the trailer counts every import instead of the ones left out
ImportsSection_TrailerTotal(imports) ==
    IF Len(imports) > 0
    THEN <<Line("imports", TXT_Imports \o NumToStr(Len(imports)) \o TXT_Close)>>
           \o [i \in DOMAIN Slice(imports, 10) |-> ImportLine(imports[i])]
           \o (IF Len(imports) > 10
               THEN <<Line("more", TXT_AndMore \o NumToStr(Len(imports)) \o TXT_More)>>
               ELSE <<>>)
           \o <<Line("blank", <<>>)>>
    ELSE <<>>

ImportsSection(imports) ==
    IF Len(imports) > 0
    THEN <<Line("imports", TXT_Imports \o NumToStr(Len(imports)) \o TXT_Close)>>
           \o [i \in DOMAIN Slice(imports, 10) |-> ImportLine(imports[i])]
           \o (IF Len(imports) > 10
               THEN <<Line("more", TXT_AndMore \o NumToStr(Len(imports) - 10) \o TXT_More)>>
               ELSE <<>>)
           \o <<Line("blank", <<>>)>>
    ELSE <<>>


ClassLines(b, cls) ==
    LET methods == Flatten([t \in DOMAIN TargetsOf(b, cls.id, "HAS_METHOD") |->
                       IF TargetsOf(b, cls.id, "HAS_METHOD")[t] \in DOMAIN b.nodeIndex
                       THEN <<b.nodeIndex[TargetsOf(b, cls.id, "HAS_METHOD")[t]]>>
                       ELSE <<>>])
        bases   == TargetsOf(b, cls.id, "EXTENDS")
        baseClasses == [k \in DOMAIN bases |-> NameOrElse(b, bases[k], TXT_Unknown)]
    IN  <<Line("class", TXT_H3 \o cls.properties.name),
          Line("classLines", TXT_Lines \o NumToStr(cls.properties.startLine)
                               \o TXT_Dash \o NumToStr(cls.properties.endLine))>>
          \o (IF Len(methods) > 0
              THEN <<Line("methods", TXT_Methods \o
                       Join([k \in DOMAIN methods |-> methods[k].properties.name],
                            TXT_Comma))>>
              ELSE <<>>)
          \o (IF Len(baseClasses) > 0
              THEN <<Line("extends", TXT_Extends \o Join(baseClasses, TXT_Comma))>>
              ELSE <<>>)
          \o <<Line("blank", <<>>)>>

ClassesSection(b, classes) ==
    IF Len(classes) > 0
    THEN <<Line("classes", TXT_Classes \o NumToStr(Len(classes)) \o TXT_Close)>>
           \o Flatten([i \in DOMAIN classes |-> ClassLines(b, classes[i])])
    ELSE <<>>

FunctionLinesOf(b, func, language) ==
    LET callIds == TargetsOf(b, func.id, "CALLS")
        calls   == [c \in DOMAIN callIds |-> NameOrElse(b, callIds[c], STR_unknown)]
        decIds  == TargetsOf(b, func.id, "DECORATED_WITH")
        decorators == [d \in DOMAIN decIds |-> NameOrElse(b, decIds[d], STR_unknown)]
    IN  <<Line("function", TXT_H3 \o func.properties.name)>>
          \o (IF func.properties.signature # <<>>
              THEN <<Line("fence", TXT_Fence \o language),
                     Line("signature", func.properties.signature),
                     Line("fence", TXT_Fence)>>
              ELSE <<>>)
          \o <<Line("functionLines", TXT_Lines \o NumToStr(func.properties.startLine)
                               \o TXT_Dash \o NumToStr(func.properties.endLine))>>
          \o (IF Len(calls) > 0
              THEN <<Line("calls", TXT_Calls \o Join(Slice(calls, 5), TXT_Comma)
                        \o (IF Len(calls) > 5
                            THEN TXT_CallsMore \o NumToStr(Len(calls) - 5) \o TXT_More
                                   \o TXT_Close
                            ELSE <<>>))>>
              ELSE <<>>)
          \o (IF Len(decorators) > 0
              THEN <<Line("decorators", TXT_Decorators \o Join(decorators, TXT_CommaAt))>>
              ELSE <<>>)
          \o <<Line("blank", <<>>)>>

FunctionsSection(b, functions, language) ==
    IF Len(functions) > 0
    THEN <<Line("functions", TXT_Functions \o NumToStr(Len(functions)) \o TXT_Close)>>
           \o Flatten([i \in DOMAIN functions |-> FunctionLinesOf(b, functions[i], language)])
    ELSE <<>>

\* sourceCode is the file text; the tree stands for it
generateMemoryContent(b, filePath, sourceCode) ==
    LET found == FindFileNode(b, filePath)
    IN  IF found = <<>> THEN <<Line("file", TXT_File \o filePath)>>
        ELSE
        LET fileNode  == found[1]
            functions == FilterNodes(b, "Function", fileNode.id, "DEFINED_IN")
            classes   == FilterNodes(b, "Class", fileNode.id, "DEFINED_IN")
            imports   == FilterNodes(b, "Import", fileNode.id, "IMPORTS")
        IN  <<Line("title", TXT_CodeFile \o filePath),
              Line("blank", <<>>),
              Line("language", TXT_Language \o fileNode.properties.language),
              Line("size", TXT_Size \o NumToStr(fileNode.properties.size) \o TXT_Bytes),
              Line("hash", TXT_Hash \o Slice(fileNode.properties.hash, 8)),
              Line("blank", <<>>)>>
              \o ImportsSection(imports)
              \o ClassesSection(b, classes)
              \o FunctionsSection(b, functions, fileNode.properties.language)
              \o (IF sourceCode # <<>>
                  THEN <<Line("source", TXT_Source),
                         Line("fence", TXT_Fence \o fileNode.properties.language),
                         Line("code", <<ToString(Utf8(sourceCode))>>),
                         Line("fence", TXT_Fence)>>
                  ELSE <<>>)

----------------------------------------------------------------------------
(* GraphBuilder.generateMetadata *)

STR_code      == <<"c","o","d","e">>
STR_classes   == <<"c","l","a","s","s","e","s">>
STR_functions == <<"f","u","n","c","t","i","o","n","s">>

\* String.prototype.split('/')
RECURSIVE SplitSlash(_, _)
SplitSlash(s, part) ==
    IF s = <<>> THEN <<part>>
    ELSE IF Head(s) = "/" THEN <<part>> \o SplitSlash(Tail(s), <<>>)
    ELSE SplitSlash(Tail(s), Append(part, Head(s)))

\* part.replace(/\.[^.]+$/, ''): drop a last dot that is followed by text
RemoveExtension(part) ==
    LET dots == {i \in DOMAIN part : part[i] = "."}
    IN  IF dots = {} THEN part
        ELSE LET last == CHOOSE i \in dots : \A j \in dots : j <= i
             IN  IF last < Len(part) THEN SubSeq(part, 1, last - 1) ELSE part

PathTopics(filePath) ==
    LET pathParts == SplitSlash(filePath, <<>>)
    IN  Flatten([i \in DOMAIN pathParts |->
            IF pathParts[i] # <<>> /\ pathParts[i] # <<".", ".">>
               /\ pathParts[i] # <<".">> /\ pathParts[i][1] # "."
            THEN <<RemoveExtension(pathParts[i])>> ELSE <<>>])

\* [...new Set(topics)]: first occurrences, in order
RECURSIVE Unique(_, _)
Unique(seq, seen) ==
    IF seq = <<>> THEN <<>>
    ELSE IF Head(seq) \in seen THEN Unique(Tail(seq), seen)
    ELSE <<Head(seq)>> \o Unique(Tail(seq), seen \cup {Head(seq)})

\* metadata whose topics are not cut
generateMetadata_Uncapped(b, filePath) ==
    LET found == FindFileNode(b, filePath)
    IN  IF found = <<>>
        THEN [filePath |-> filePath, language |-> STR_unknown,
              topics |-> <<STR_code>>, emojiTags |-> <<>>]
        ELSE
        LET fileNode == found[1]
            hasClasses   == FilterNodes(b, "Class", fileNode.id, "DEFINED_IN") # <<>>
            hasFunctions == FilterNodes(b, "Function", fileNode.id, "DEFINED_IN") # <<>>
            topics == <<STR_code, fileNode.properties.language>>
                        \o PathTopics(filePath)
                        \o (IF hasClasses THEN <<STR_classes>> ELSE <<>>)
                        \o (IF hasFunctions THEN <<STR_functions>> ELSE <<>>)
        IN  [filePath |-> filePath,
             language |-> fileNode.properties.language,
             topics |-> Unique(topics, {}),
             emojiTags |-> <<"laptop", "page">>
                 \o (IF fileNode.properties.language = STR_python THEN <<"snake">> ELSE <<>>)]

generateMetadata(b, filePath) ==
    LET found == FindFileNode(b, filePath)
    IN  IF found = <<>>
        THEN [filePath |-> filePath, language |-> STR_unknown,
              topics |-> <<STR_code>>, emojiTags |-> <<>>]
        ELSE
        LET fileNode == found[1]
            hasClasses   == FilterNodes(b, "Class", fileNode.id, "DEFINED_IN") # <<>>
            hasFunctions == FilterNodes(b, "Function", fileNode.id, "DEFINED_IN") # <<>>
            topics == <<STR_code, fileNode.properties.language>>
                        \o PathTopics(filePath)
                        \o (IF hasClasses THEN <<STR_classes>> ELSE <<>>)
                        \o (IF hasFunctions THEN <<STR_functions>> ELSE <<>>)
        IN  [filePath |-> filePath,
             language |-> fileNode.properties.language,
             topics |-> Slice(Unique(topics, {}), 10),
             emojiTags |-> <<"laptop", "page">>
                 \o (IF fileNode.properties.language = STR_python THEN <<"snake">> ELSE <<>>)]


----------------------------------------------------------------------------
(* CodeIndexer.indexFile on generated files *)

STR_A == <<"A">>
STR_B == <<"B">>
STR_C == <<"C">>
STR_m == <<"m">>
STR_g == <<"g">>
STR_d == <<"d">>
STR_os == <<"o","s">>
STR_re == <<"r","e">>
STR_np == <<"n","p">>
STR_path == <<"p","a","t","h">>
STR_self == <<"(","s","e","l","f",")">>
STR_noargs == <<"(",")">>
STR_o_h == <<"o",".","h">>
STR_x_B == <<"x",".","B">>
STR_G_T == <<"G","[","T","]">>
STR_p_B_py == <<"p","/","B",".","p","y">>

Method_m == FunctionDef(STR_m, STR_self, <<>>, <<>>)

\* class A(B, C): def m(self): pass
EndToEndClass ==
    ClassDef(STR_A, <<Item("identifier", STR_B), Item("identifier", STR_C)>>,
             <<Method_m>>, <<>>)

StmtSamples ==
    { ImportStmt(<<Item("dotted_name", STR_os)>>),
      ImportStmt(<<Item("dotted_name", STR_os), Item("dotted_name", STR_re)>>),
      ImportStmt(<<Item("aliased_import", STR_np)>>),
      ImportFromStmt("dotted_name", STR_os, <<Item("dotted_name", STR_path)>>),
      ImportFromStmt("dotted_name", STR_os, <<>>),
      ImportFromStmt("relative_import", <<".">>, <<Item("dotted_name", STR_path)>>),
      FunctionDef(STR_f, STR_noargs, <<>>, <<>>),
      FunctionDef(STR_f, STR_noargs, <<Item("identifier", STR_d)>>,
                  <<Item("identifier", STR_g), Item("attribute", STR_o_h)>>),
      ClassDef(STR_A, <<>>, <<>>, <<>>),
      EndToEndClass,
      ClassDef(STR_A, <<Item("identifier", STR_B), Item("subscript", STR_G_T)>>,
               <<FunctionDef(STR_m, STR_self, <<Item("identifier", STR_d)>>, <<>>)>>,
               <<>>),
      ClassDef(<<"a">>, <<Item("attribute", STR_x_B)>>, <<>>,
               <<Item("identifier", STR_d)>>) }

RECURSIVE SeqsUpTo(_, _)
SeqsUpTo(S, n) ==
    IF n = 0 THEN {<<>>}
    ELSE LET shorter == SeqsUpTo(S, n - 1)
         IN  shorter \cup {Append(q, x) : q \in shorter, x \in S}

\* n import statements, one module each; the first `repeated` + 1 of them
\* import the same module
ImportRun(n, repeated) ==
    [i \in 1 .. n |->
        ImportStmt(<<Item("dotted_name", <<LowerChars[Max(1, i - repeated)]>>)>>)]

SampleTrees ==
    SeqsUpTo(StmtSamples, MaxStmts)
      \cup {ImportRun(n, r) : n \in 0 .. MaxImports, r \in 0 .. 1}

SamplePaths == {STR_a_py, STR_p_B_py}

\* a/b/.../x.py with n segments
DeepPath(n) ==
    Flatten([i \in 1 .. (n - 1) |-> <<LowerChars[i], "/">>])
      \o <<LowerChars[n], ".", "p", "y">>

DeepPaths == {DeepPath(n) : n \in 6 .. MaxDepth}

\* files with a function, a class, and a class with a method
DeepTrees ==
    { <<FunctionDef(STR_f, STR_noargs, <<>>, <<>>)>>,
      <<ClassDef(STR_A, <<>>, <<>>, <<>>)>>,
      <<EndToEndClass>> }

InitExtract ==
    /\ IdIdle
    /\ GbIdle
    /\ BatchIdle
    /\ McpIdle
    /\ SmIdle
    /\ \/ srcPath \in SamplePaths /\ srcTree \in SampleTrees
       \/ srcPath \in DeepPaths /\ srcTree \in DeepTrees
    /\ clock = 0
    /\ parsed = <<>>
    /\ store = <<>>

\* time passes
Tick ==
    /\ clock < MaxClock
    /\ clock' = clock + 1
    /\ UNCHANGED <<srcPath, srcTree, parsed, store, ExFrame>>

\* what indexFile builds from a parse result and hands to addCodeMemory
MemoryOf(filePath, content, parseResult) ==
    LET graphBuilder ==
            addRelationships(addNodes(NewGraphBuilder, parseResult.nodes),
                             parseResult.relationships)
    IN  [content |-> generateMemoryContent(graphBuilder, filePath, content),
         metadata |-> generateMetadata(graphBuilder, filePath),
         graphOverride |-> buildGraphOverride(graphBuilder)]

\* one run of indexFile in which the read, the parse and the upload succeed
IndexFile ==
    /\ Len(store) < MaxRuns
    /\ parsed' = parseFile(srcPath, srcTree, clock)
    /\ store' = Append(store, MemoryOf(srcPath, srcTree, parsed'))
    /\ UNCHANGED <<srcPath, srcTree, clock, ExFrame>>

NextExtract == Tick \/ IndexFile

SpecExtract == InitExtract /\ [][NextExtract]_vars

----------------------------------------------------------------------------
(* language-detector *)

\* LANGUAGE_MAP: file extension -> language name
LANGUAGE_MAP ==
    (<<".","p","y">> :> <<"p","y","t","h","o","n">>)
      @@ (<<".","p","y","w">> :> <<"p","y","t","h","o","n">>)
      @@ (<<".","p","y","i">> :> <<"p","y","t","h","o","n">>)
      @@ (<<".","j","s">> :> <<"j","a","v","a","s","c","r","i","p","t">>)
      @@ (<<".","m","j","s">> :> <<"j","a","v","a","s","c","r","i","p","t">>)
      @@ (<<".","c","j","s">> :> <<"j","a","v","a","s","c","r","i","p","t">>)
      @@ (<<".","j","s","x">> :> <<"j","a","v","a","s","c","r","i","p","t">>)
      @@ (<<".","t","s">> :> <<"t","y","p","e","s","c","r","i","p","t">>)
      @@ (<<".","t","s","x">> :> <<"t","y","p","e","s","c","r","i","p","t">>)
      @@ (<<".","m","t","s">> :> <<"t","y","p","e","s","c","r","i","p","t">>)
      @@ (<<".","c","t","s">> :> <<"t","y","p","e","s","c","r","i","p","t">>)
      @@ (<<".","j","a","v","a">> :> <<"j","a","v","a">>)
      @@ (<<".","g","o">> :> <<"g","o">>)
      @@ (<<".","r","s">> :> <<"r","u","s","t">>)
      @@ (<<".","c">> :> <<"c">>)
      @@ (<<".","h">> :> <<"c">>)
      @@ (<<".","c","p","p">> :> <<"c","p","p">>)
      @@ (<<".","h","p","p">> :> <<"c","p","p">>)
      @@ (<<".","c","c">> :> <<"c","p","p">>)
      @@ (<<".","c","x","x">> :> <<"c","p","p">>)
      @@ (<<".","r","b">> :> <<"r","u","b","y">>)
      @@ (<<".","p","h","p">> :> <<"p","h","p">>)
      @@ (<<".","s","h">> :> <<"s","h","e","l","l">>)
      @@ (<<".","b","a","s","h">> :> <<"s","h","e","l","l">>)
      @@ (<<".","z","s","h">> :> <<"s","h","e","l","l">>)

\* IGNORE_PATTERNS: each regular expression is a literal, so pattern.test
\* is a substring test
IGNORE_PATTERNS ==
    { <<"n","o","d","e","_","m","o","d","u","l","e","s">>,
      <<".","g","i","t">>,
      <<"d","i","s","t">>,
      <<"b","u","i","l","d">>,
      <<"t","a","r","g","e","t">>,
      <<".","n","e","x","t">>,
      <<".","v","s","c","o","d","e">>,
      <<".","i","d","e","a">>,
      <<"_","_","p","y","c","a","c","h","e","_","_">>,
      <<".","p","y","t","e","s","t","_","c","a","c","h","e">>,
      <<".","D","S","_","S","t","o","r","e">>,
      <<".","e","n","v">>,
      <<"p","a","c","k","a","g","e","-","l","o","c","k",".","j","s","o","n">>,
      <<"y","a","r","n",".","l","o","c","k">>,
      <<"p","n","p","m","-","l","o","c","k",".","y","a","m","l">> }

\* test[s]?\/ matches either of the first two
testPatterns ==
    { <<"t","e","s","t","/">>,
      <<"t","e","s","t","s","/">>,
      <<"/","_","_","t","e","s","t","s","_","_","/">>,
      <<".","t","e","s","t",".">>,
      <<".","s","p","e","c",".">>,
      <<"_","t","e","s","t",".">> }

generatedPatterns ==
    { <<".","g","e","n","e","r","a","t","e","d",".">>,
      <<".","g","e","n",".">>,
      <<"-","g","e","n","e","r","a","t","e","d",".">>,
      <<"g","e","n","e","r","a","t","e","d","/">>,
      <<"g","e","n","/">> }

\* index of the last occurrence of character c in s, 0 when there is none
LastIndexOf(s, c) ==
    LET I == {i \in DOMAIN s : s[i] = c}
    IN  IF I = {} THEN 0 ELSE CHOOSE i \in I : \A j \in I : j <= i

\* path.basename / path.extname (POSIX); both ignore trailing separators
RECURSIVE StripTrailingSlashes(_)
StripTrailingSlashes(p) ==
    IF p # <<>> /\ p[Len(p)] = "/" THEN StripTrailingSlashes(SubSeq(p, 1, Len(p) - 1))
    ELSE p

basename(p) ==
    SubSeq(StripTrailingSlashes(p),
           LastIndexOf(StripTrailingSlashes(p), "/") + 1,
           Len(StripTrailingSlashes(p)))

extname(p) ==
    LET base == basename(p)
        dot  == LastIndexOf(base, ".")
    IN  IF dot <= 1 \/ base = <<".", ".">> THEN <<>>
        ELSE SubSeq(base, dot, Len(base))

\* null is the empty string: both are falsy, and no language name is empty
detectLanguage(filePath) ==
    LET ext == LowerAll(extname(filePath))
    IN  IF ext \in DOMAIN LANGUAGE_MAP THEN LANGUAGE_MAP[ext] ELSE <<>>

shouldIndexFile(filePath, opts) ==
    /\ \A pattern \in IGNORE_PATTERNS : ~Includes(filePath, pattern)
    /\ detectLanguage(filePath) # <<>>
    /\ (opts.includeTests
          \/ \A pattern \in testPatterns : ~Includes(filePath, pattern))
    /\ (opts.includeGenerated
          \/ \A pattern \in generatedPatterns : ~Includes(filePath, pattern))

----------------------------------------------------------------------------
(* CodeIndexer: indexFile / indexFiles over a batch of paths *)

Undefined == "undefined"

\* parsers registered by the constructor, by lower-cased language name
parsers == {STR_python}

\* null is <<>>
getParser(language) ==
    IF LowerAll(language) \in parsers THEN LowerAll(language) ELSE <<>>

\* the early returns of indexFile; "" when the file goes on to be read
skipReason(filePath, opts) ==
    IF ~shouldIndexFile(filePath, opts)
      THEN "File filtered out (test/generated/ignored)"
    ELSE IF detectLanguage(filePath) = <<>>
      THEN "Unsupported language"
    ELSE IF getParser(detectLanguage(filePath)) = <<>>
      THEN "No parser available"
    ELSE ""

\* an early return without the skipped flag
skippedResult_NoFlag(reason) == [success |-> FALSE, reason |-> reason]

\* the early returns of indexFile: { success: false, skipped: true, reason }
skippedResult(reason) == [success |-> FALSE, skipped |-> TRUE, reason |-> reason]

\* returned when parseResult.success is false, and by the catch block
errorResult(filePath, message) ==
    [success |-> FALSE, error |-> message, filePath |-> filePath]

\* what addCodeMemory resolves to; id is the store's memoryId
addCodeMemoryResult(accepted, id, graphOverride) ==
    IF accepted
      THEN [success |-> TRUE, memoryId |-> id,
            nodeCount |-> Len(graphOverride.nodes),
            relationshipCount |-> Len(graphOverride.relationships)]
      ELSE [success |-> FALSE, error |-> "Failed to add memory: Unknown error"]

\* a member of a JavaScript object, undefined when absent
Member(obj, key) == IF key \in DOMAIN obj THEN obj[key] ELSE Undefined

\* the last return of the try block
indexedResult(filePath, parseResult, graphOverride, result) ==
    [success |-> result.success,
     filePath |-> filePath,
     stats |-> parseResult.stats,
     memoryId |-> Member(result, "memoryId"),
     graphStats |-> [nodes |-> Len(graphOverride.nodes),
                     relationships |-> Len(graphOverride.relationships)]]

\* the body of the for loop of indexFiles after indexFile has returned
tally_ErrorsOnlyWithMessage(res, filePath, result) ==
    IF result.success
      THEN [res EXCEPT !.success = @ + 1,
                       !.indexed = Append(@, [path |-> filePath,
                                              memoryId |-> result.memoryId,
                                              stats |-> result.stats])]
    ELSE IF "skipped" \in DOMAIN result /\ result.skipped
      THEN [res EXCEPT !.skipped = @ + 1]
    ELSE IF Member(result, "error") = Undefined
      THEN [res EXCEPT !.failed = @ + 1]
    ELSE [res EXCEPT !.failed = @ + 1,
                     !.errors = Append(@, [path |-> filePath,
                                           error |-> Member(result, "error")])]

\* a loop body that counts a skipped file nowhere
tally_SkippedUncounted(res, filePath, result) ==
    IF result.success
      THEN [res EXCEPT !.success = @ + 1,
                       !.indexed = Append(@, [path |-> filePath,
                                              memoryId |-> result.memoryId,
                                              stats |-> result.stats])]
    ELSE IF "skipped" \in DOMAIN result /\ result.skipped
      THEN res
    ELSE [res EXCEPT !.failed = @ + 1,
                     !.errors = Append(@, [path |-> filePath,
                                           error |-> Member(result, "error")])]

tally(res, filePath, result) ==
    IF result.success
      THEN [res EXCEPT !.success = @ + 1,
                       !.indexed = Append(@, [path |-> filePath,
                                              memoryId |-> result.memoryId,
                                              stats |-> result.stats])]
    ELSE IF "skipped" \in DOMAIN result /\ result.skipped
      THEN [res EXCEPT !.skipped = @ + 1]
    ELSE [res EXCEPT !.failed = @ + 1,
                     !.errors = Append(@, [path |-> filePath,
                                           error |-> Member(result, "error")])]

STR_b_py      == <<"b",".","p","y">>
STR_a_test_py == <<"a","_","t","e","s","t",".","p","y">>
STR_t_js      == <<"t",".","j","s">>

BatchPaths == {STR_a_py, STR_b_py, STR_a_test_py, STR_t_js}

OptionSamples == {DefaultOptions, [DefaultOptions EXCEPT !.includeTests = TRUE]}

\* the text fs.readFile returns for a path when the read succeeds
readFile(filePath) ==
    IF basename(filePath) = STR_a_py THEN <<EndToEndClass>>
    ELSE IF basename(filePath) = STR_b_py
      THEN <<ImportStmt(<<Item("dotted_name", STR_os)>>), ClassDef(STR_B, <<>>, <<>>, <<>>)>>
    ELSE <<FunctionDef(STR_f, STR_noargs, <<>>, <<>>)>>

AllFaults == {"schema", "readdir", "read", "parse", "publish"}

\* the path lists indexFiles is called with: every list of up to two paths
\* (a path may be listed twice), and the longer lists of distinct paths
BatchSamples ==
    {s \in SeqsUpTo(BatchPaths, MaxBatch) :
        Len(s) <= 2 \/ Cardinality(Range(s)) = Len(s)}

\* indexFiles(filePaths, options) has been called on a new CodeIndexer
InitBatch ==
    /\ IdIdle
    /\ ExIdle
    /\ GbIdle
    /\ McpIdle
    /\ SmIdle
    /\ filePaths \in BatchSamples
    /\ options \in OptionSamples
    /\ initialized = FALSE
    /\ pos = 0
    /\ pc = "loop"
    /\ results = NewResults
    /\ outcomes = <<>>
    /\ addCalls = <<>>
    /\ events = <<>>
    /\ faults = AllFaults

\* indexFile has returned result for the current file: the loop body counts
\* it and starts the delay; outcome records what happened to the file
Finish(result, outcome) ==
    /\ results' = tally(results, srcPath, result)
    /\ outcomes' = Append(outcomes, outcome)
    /\ pc' = "delay"

\* the loop with indexFile called but not awaited
TakeNextFile_NoAwait ==
    /\ pc \in {"loop", "publishing"}
    /\ pos < Len(filePaths)
    /\ pos' = pos + 1
    /\ srcPath' = filePaths[pos + 1]
    /\ pc' = IF initialized THEN "filter" ELSE "initialize"
    /\ events' = Append(events, <<"start", pos + 1>>)
    /\ UNCHANGED <<filePaths, options, initialized, results, outcomes, addCalls,
                   srcTree, clock, parsed, store, BatchFrame>>

\* the for loop takes the next path and calls indexFile
TakeNextFile ==
    /\ pc = "loop"
    /\ pos < Len(filePaths)
    /\ pos' = pos + 1
    /\ srcPath' = filePaths[pos + 1]
    /\ pc' = IF initialized THEN "filter" ELSE "initialize"
    /\ events' = Append(events, <<"start", pos + 1>>)
    /\ UNCHANGED <<filePaths, options, initialized, results, outcomes, addCalls,
                   srcTree, clock, parsed, store, BatchFrame>>

\* await this.initialize(): sets initialized only when the schema was
\* initialized; indexFile does not look at what it returns
Initialize ==
    /\ pc = "initialize"
    /\ \E ok \in {TRUE} \cup {FALSE : f \in faults \cap {"schema"}} :
          /\ initialized' = ok
          /\ events' = Append(events, <<IF ok THEN "initialized" ELSE "initializeFailed", pos>>)
    /\ pc' = "filter"
    /\ UNCHANGED <<filePaths, options, pos, results, outcomes, addCalls,
                   exVars, BatchFrame>>

\* shouldIndexFile, detectLanguage, getParser
Filter ==
    /\ pc = "filter"
    /\ LET reason == skipReason(srcPath, options)
       IN  IF reason # ""
             THEN Finish(skippedResult(reason), "skipped")
             ELSE pc' = "read" /\ UNCHANGED <<results, outcomes>>
    /\ UNCHANGED <<filePaths, options, initialized, pos, addCalls, events,
                   exVars, BatchFrame>>

\* await fs.readFile(filePath, 'utf8') returns the text or throws
ReadFile ==
    /\ pc = "read"
    /\ \/ /\ srcTree' = readFile(srcPath)
          /\ pc' = "parse"
          /\ events' = Append(events, <<"read", pos>>)
          /\ UNCHANGED <<results, outcomes>>
       \/ /\ "read" \in faults
          /\ Finish(errorResult(srcPath, "ENOENT: no such file or directory"),
                    "readFailed")
          /\ UNCHANGED <<srcTree, events>>
    /\ UNCHANGED <<filePaths, options, initialized, pos, addCalls,
                   srcPath, clock, parsed, store, BatchFrame>>

\* await parser.parseFile(filePath, content): the parse result, or
\* { success: false } when the parser or a query throws
ParseFile ==
    /\ pc = "parse"
    /\ \/ /\ parsed' = parseFile(srcPath, srcTree, clock)
          /\ pc' = "publish"
          /\ events' = Append(events, <<"extracted", pos>>)
          /\ UNCHANGED <<results, outcomes>>
       \/ /\ "parse" \in faults
          /\ parsed' = errorResult(srcPath, "Invalid argument")
          /\ Finish(errorResult(srcPath, parsed'.error), "parseFailed")
          /\ UNCHANGED events
    /\ UNCHANGED <<filePaths, options, initialized, pos, addCalls,
                   srcPath, srcTree, clock, store, BatchFrame>>

\* client.memory.add(memoryParams): the store is handed one more memory
memoryAdd_Retry(calls, index, memory) ==
    calls \o <<[index |-> index, memory |-> memory],
               [index |-> index, memory |-> memory]>>

memoryAdd(calls, index, memory) ==
    Append(calls, [index |-> index, memory |-> memory])

\* build the graph, render the document and metadata, and call
\* addCodeMemory, which hands the memory to the store
AddCodeMemory ==
    /\ pc = "publish"
    /\ addCalls' = memoryAdd(addCalls, pos, MemoryOf(srcPath, srcTree, parsed))
    /\ events' = events \o <<<<"synthesized", pos>>, <<"publishCalled", pos>>>>
    /\ pc' = "publishing"
    /\ UNCHANGED <<filePaths, options, initialized, pos, results, outcomes,
                   exVars, BatchFrame>>

\* addCodeMemory resolves to success or to { success: false, error };
\* indexFile returns
AddCodeMemoryReturn ==
    /\ pc = "publishing"
    /\ \E accepted \in {TRUE} \cup {FALSE : f \in faults \cap {"publish"}} :
          LET memory == addCalls[Len(addCalls)].memory
              result == addCodeMemoryResult(accepted, Len(store) + 1,
                                            memory.graphOverride)
          IN  /\ store' = IF accepted THEN Append(store, memory) ELSE store
              /\ Finish(indexedResult(srcPath, parsed, memory.graphOverride, result),
                        IF accepted THEN "published" ELSE "publishFailed")
    /\ events' = Append(events, <<"publishReturned", pos>>)
    /\ UNCHANGED <<filePaths, options, initialized, pos, addCalls,
                   srcPath, srcTree, clock, parsed, BatchFrame>>

\* the delay after each file has elapsed
Delay ==
    /\ pc = "delay"
    /\ pc' = "loop"
    /\ UNCHANGED <<filePaths, options, initialized, pos, results, outcomes,
                   addCalls, events, exVars, BatchFrame>>

\* the loop is over: indexFiles returns results
Return ==
    /\ pc = "loop"
    /\ pos = Len(filePaths)
    /\ pc' = "done"
    /\ UNCHANGED <<filePaths, options, initialized, pos, results, outcomes,
                   addCalls, events, exVars, BatchFrame>>

NextBatch ==
    TakeNextFile \/ Initialize \/ Filter \/ ReadFile \/ ParseFile
      \/ AddCodeMemory \/ AddCodeMemoryReturn \/ Delay \/ Return

SpecBatch == InitBatch /\ [][NextBatch]_vars

----------------------------------------------------------------------------
(* handleIndexCodebase -> initialize -> indexDirectory -> findCodeFiles     *)

\* directory entries as fs.readdir(dir, { withFileTypes: true }) lists them
FileEntry(name) == [name |-> name, isDirectory |-> FALSE, entries |-> <<>>]
DirEntry(name, entries) == [name |-> name, isDirectory |-> TRUE, entries |-> entries]

\* path.join(dir, entry.name)
PathJoin(dir, name) == dir \o <<"/">> \o name

\* walk(dir) of findCodeFiles: the files pushed while dir is walked
RECURSIVE walk(_, _, _)
walk(dir, entries, opts) ==
    IF entries = <<>> THEN <<>>
    ELSE LET entry    == Head(entries)
             fullPath == PathJoin(dir, entry.name)
             found ==
                 IF entry.isDirectory
                   THEN IF ~shouldIndexFile(fullPath \o <<"/">>, opts)
                          THEN <<>>
                          ELSE walk(fullPath, entry.entries, opts)
                 ELSE IF shouldIndexFile(fullPath, opts) THEN <<fullPath>>
                 ELSE <<>>
         IN  found \o walk(dir, Tail(entries), opts)

findCodeFiles(directory, opts) == walk(directory.path, directory.entries, opts)

\* what the catch block of indexDirectory returns
directoryFailure(directoryPath, message) ==
    [success |-> 0, failed |-> 1, skipped |-> 0,
     errors |-> <<[path |-> directoryPath, error |-> message]>>]

ErrorCap   == 10
IndexedCap == 20

\* the response of handleIndexCodebase with every error listed
formatResponse_AllErrors(result) ==
    [status |-> "success",
     success_count |-> result.success,
     skipped_count |-> result.skipped,
     failed_count |-> result.failed,
     indexed_files |->
        IF "indexed" \in DOMAIN result
          THEN [i \in DOMAIN Slice(result.indexed, IndexedCap) |->
                   [path |-> result.indexed[i].path,
                    functions |-> result.indexed[i].stats.functions,
                    classes |-> result.indexed[i].stats.classes]]
          ELSE <<>>,
     errors |-> result.errors]

\* the JSON text handleIndexCodebase answers after indexDirectory
formatResponse(result) ==
    [status |-> "success",
     success_count |-> result.success,
     skipped_count |-> result.skipped,
     failed_count |-> result.failed,
     indexed_files |->
        IF "indexed" \in DOMAIN result
          THEN [i \in DOMAIN Slice(result.indexed, IndexedCap) |->
                   [path |-> result.indexed[i].path,
                    functions |-> result.indexed[i].stats.functions,
                    classes |-> result.indexed[i].stats.classes]]
          ELSE <<>>,
     errors |-> Slice(result.errors, ErrorCap)]

STR_r      == <<"r">>
STR_a_md   == <<"a",".","m","d">>
STR_pkg    == <<"p","k","g">>
STR_sub    == <<"s","u","b">>
STR_mod_py == <<"m","o","d",".","p","y">>
STR_x_py   == <<"x",".","p","y">>
STR_node_modules == <<"n","o","d","e","_","m","o","d","u","l","e","s">>
STR_builder_py  == <<"b","u","i","l","d","e","r",".","p","y">>
STR_distance_py == <<"d","i","s","t","a","n","c","e",".","p","y">>

\* a directory of n Python files
FlatDirectory(n) ==
    [path |-> STR_r,
     entries |-> [i \in 1 .. n |-> FileEntry(<<LowerChars[i]>> \o <<".","p","y">>)]]

DirectorySamples ==
    { [path |-> STR_r, entries |-> <<FileEntry(STR_a_py), FileEntry(STR_b_py)>>],
      [path |-> STR_r,
       entries |-> <<FileEntry(STR_a_py),
                     DirEntry(STR_pkg, <<DirEntry(STR_sub, <<FileEntry(STR_mod_py)>>)>>)>>],
      [path |-> STR_r,
       entries |-> <<FileEntry(STR_a_test_py), FileEntry(STR_t_js), FileEntry(STR_a_md)>>],
      [path |-> STR_r,
       entries |-> <<DirEntry(STR_node_modules, <<FileEntry(STR_a_py)>>),
                     DirEntry(STR_x_py, <<FileEntry(STR_b_py)>>)>>],
      [path |-> STR_r,
       entries |-> <<FileEntry(STR_builder_py), FileEntry(STR_distance_py)>>] }

\* handleIndexCodebase has been called with an existing directory
InitDir ==
    /\ IdIdle
    /\ ExIdle
    /\ GbIdle
    /\ SmIdle
    /\ \/ dirTree \in DirectorySamples /\ faults = AllFaults
       \/ dirTree = FlatDirectory(MaxFiles) /\ faults = {"read"}
    /\ options \in OptionSamples
    /\ response = <<>>
    /\ filePaths = <<>>
    /\ initialized = FALSE
    /\ pos = 0
    /\ pc = "handler"
    /\ results = NewResults
    /\ outcomes = <<>>
    /\ addCalls = <<>>
    /\ events = <<>>

\* const initResult = await indexer.initialize(); a failure is thrown and
\* answered as an error
HandlerInitialize ==
    /\ pc = "handler"
    /\ \/ /\ initialized' = TRUE
          /\ pc' = "walk"
          /\ UNCHANGED response
       \/ /\ "schema" \in faults
          /\ response' = [error |-> "Initialization failed"]
          /\ pc' = "responded"
          /\ UNCHANGED initialized
    /\ UNCHANGED <<filePaths, options, pos, results, outcomes, addCalls, events,
                   exVars, idVars, gbVars, envVars, dirTree, smVars>>

\* indexDirectory: findCodeFiles lists the files for indexFiles, or readdir
\* throws and the catch block returns
FindCodeFiles ==
    /\ pc = "walk"
    /\ \/ /\ filePaths' = findCodeFiles(dirTree, options)
          /\ pc' = "loop"
          /\ UNCHANGED results
       \/ /\ "readdir" \in faults
          /\ results' = directoryFailure(dirTree.path, "EACCES: permission denied")
          /\ pc' = "done"
          /\ UNCHANGED filePaths
    /\ UNCHANGED <<options, initialized, pos, outcomes, addCalls, events,
                   exVars, BatchFrame>>

\* handleIndexCodebase answers with the summary
Respond ==
    /\ pc = "done"
    /\ response' = formatResponse(results)
    /\ pc' = "responded"
    /\ UNCHANGED <<ixVarsButPc, exVars, idVars, gbVars, envVars, dirTree, smVars>>

NextDir ==
    HandlerInitialize \/ FindCodeFiles \/ TakeNextFile \/ Filter \/ ReadFile
      \/ ParseFile \/ AddCodeMemory \/ AddCodeMemoryReturn \/ Delay \/ Return
      \/ Respond

SpecDir == InitDir /\ [][NextDir]_vars


----------------------------------------------------------------------------
(* CODE_SCHEMA: the catalog of node and relationship types *)

RequiredProperties(label) ==
    CASE label = "File"      -> {"path", "language"}
      [] label = "Function"  -> {"name", "language", "startLine", "endLine"}
      [] label = "Class"     -> {"name", "language", "startLine", "endLine"}
      [] label = "Variable"  -> {"name", "scope", "language", "line"}
      [] label = "Import"    -> {"moduleName", "line"}
      [] label = "Export"    -> {"name", "type"}
      [] label = "CallSite"  -> {"calleeName", "line"}
      [] label = "Decorator" -> {"name", "line"}
      [] label = "Comment"   -> {"text", "type", "startLine"}
      [] label = "Package"   -> {"name", "type"}

RelType(sources, targets) ==
    [allowed_source_types |-> sources, allowed_target_types |-> targets]

RelationshipTypes ==
    "DEFINED_IN" :> RelType({"Function", "Class", "Variable", "Import", "Export",
                             "CallSite", "Decorator", "Comment"}, {"File"})
    @@ "CALLS" :> RelType({"Function", "CallSite"}, {"Function"})
    @@ "CALLED_BY" :> RelType({"Function"}, {"Function", "CallSite"})
    @@ "EXTENDS" :> RelType({"Class"}, {"Class"})
    @@ "IMPLEMENTS" :> RelType({"Class"}, {"Class"})
    @@ "HAS_METHOD" :> RelType({"Class"}, {"Function"})
    @@ "HAS_FIELD" :> RelType({"Class"}, {"Variable"})
    @@ "IMPORTS" :> RelType({"File"}, {"Import"})
    @@ "IMPORTS_FROM" :> RelType({"Import"}, {"File", "Package"})
    @@ "EXPORTS" :> RelType({"File"}, {"Export"})
    @@ "EXPORTS_SYMBOL" :> RelType({"Export"}, {"Function", "Class", "Variable"})
    @@ "HAS_PARAMETER" :> RelType({"Function"}, {"Variable"})
    @@ "USES_VARIABLE" :> RelType({"Function"}, {"Variable"})
    @@ "ASSIGNS_TO" :> RelType({"Function"}, {"Variable"})
    @@ "DECORATED_WITH" :> RelType({"Function", "Class"}, {"Decorator"})
    @@ "DOCUMENTS" :> RelType({"Comment"}, {"Function", "Class", "File"})
    @@ "DEPENDS_ON" :> RelType({"File"}, {"Package"})
    @@ "TESTED_BY" :> RelType({"Function", "Class"}, {"Function"})
    @@ "THROWS" :> RelType({"Function"}, {"Class"})
    @@ "REFERENCES" :> RelType({"Function", "Class", "Variable"},
                            {"Function", "Class", "Variable"})

\* the first segment of an ID names the label generateNodeId made it for
IdPrefix(label) ==
    CASE label = "File"      -> <<"f","i","l","e","_">>
      [] label = "Function"  -> <<"f","u","n","c","_">>
      [] label = "Class"     -> <<"c","l","a","s","s","_">>
      [] label = "Variable"  -> <<"v","a","r","_">>
      [] label = "Import"    -> <<"i","m","p","o","r","t","_">>
      [] label = "Export"    -> <<"e","x","p","o","r","t","_">>
      [] label = "CallSite"  -> <<"c","a","l","l","_">>
      [] label = "Decorator" -> <<"d","e","c","_">>
      [] label = "Comment"   -> <<"c","o","m","m","e","n","t","_">>
      [] label = "Package"   -> <<"p","k","g","_">>

HasPrefix(s, prefix) ==
    Len(s) >= Len(prefix) /\ SubSeq(s, 1, Len(prefix)) = prefix

\* labels an ID can stand for: the label of an emitted node with that ID,
\* else the label whose ID scheme produced it (a dangling target)
LabelsOfId(id, nodes) ==
    IF \E i \in DOMAIN nodes : nodes[i].id = id
    THEN {nodes[i].label : i \in {k \in DOMAIN nodes : nodes[k].id = id}}
    ELSE {l \in NodeLabels : HasPrefix(id, IdPrefix(l))}

validateNode(node) ==
    /\ node.label \in NodeLabels
    /\ RequiredProperties(node.label) \subseteq DOMAIN node.properties

validateRelationship(rel, nodes) ==
    /\ rel.relationship_type \in DOMAIN RelationshipTypes
    /\ LabelsOfId(rel.source_node_id, nodes) # {}
    /\ LabelsOfId(rel.target_node_id, nodes) # {}
    /\ LabelsOfId(rel.source_node_id, nodes)
         \subseteq RelationshipTypes[rel.relationship_type].allowed_source_types
    /\ LabelsOfId(rel.target_node_id, nodes)
         \subseteq RelationshipTypes[rel.relationship_type].allowed_target_types

----------------------------------------------------------------------------
(* Properties of extraction and of the published memory *)

NodeIds(graph) == {graph.nodes[i].id : i \in DOMAIN graph.nodes}

RelTriple(r) == <<r.source_node_id, r.target_node_id, r.relationship_type>>

RelTriples(graph) ==
    {RelTriple(graph.relationships[i]) : i \in DOMAIN graph.relationships}

\* C2: indexing the same unchanged file twice hands the store two graphs
\* with equal sets of node IDs and equal sets of (source, target, type)
\* relationships.
C2_Idempotent ==
    \A i, j \in DOMAIN store :
        /\ NodeIds(store[i].graphOverride) = NodeIds(store[j].graphOverride)
        /\ RelTriples(store[i].graphOverride) = RelTriples(store[j].graphOverride)

\* two runs at different clock readings over a file with symbols: the File
\* nodes differ (lastModified) while the IDs agree
C2_Witness ==
    /\ Len(store) = 2
    /\ Len(store[1].graphOverride.relationships) >= 3
    /\ store[1].graphOverride.nodes[1].properties.lastModified
         # store[2].graphOverride.nodes[1].properties.lastModified
    /\ NodeIds(store[1].graphOverride) = NodeIds(store[2].graphOverride)

\* C4: every node emitted by extraction has a catalog label and carries the
\* properties the catalog requires for it, and every emitted relationship
\* has a catalog type whose endpoint labels the catalog allows.
C4_SchemaClosure ==
    Len(store) > 0 =>
        /\ \A i \in DOMAIN parsed.nodes : validateNode(parsed.nodes[i])
        /\ \A i \in DOMAIN parsed.relationships :
               validateRelationship(parsed.relationships[i], parsed.nodes)

EmittedLabels == {parsed.nodes[i].label : i \in DOMAIN parsed.nodes}

EmittedRelTypes ==
    {parsed.relationships[i].relationship_type : i \in DOMAIN parsed.relationships}

C4_Witness ==
    /\ Len(store) > 0
    /\ EmittedLabels = {"File", "Function", "Class"}
    /\ {"DEFINED_IN", "CALLS", "DECORATED_WITH", "EXTENDS"} \subseteq EmittedRelTypes


Latest == store[Len(store)]

\* the symbol labels whose nodes C5 speaks of
ContainedLabels == {"Function", "Class", "Import", "Export", "Variable"}

DefinedInTargets(graph, id) ==
    Flatten([r \in DOMAIN graph.relationships |->
        IF /\ graph.relationships[r].source_node_id = id
           /\ graph.relationships[r].relationship_type = "DEFINED_IN"
        THEN <<graph.relationships[r].target_node_id>> ELSE <<>>])

\* C5: in the graph built for a file, every Function, Class, Import, Export
\* and Variable node has exactly one DEFINED_IN relationship, and its target
\* is the File node of that file.
C5_Containment ==
    Len(store) > 0 =>
        \A i \in DOMAIN Latest.graphOverride.nodes :
            LET node == Latest.graphOverride.nodes[i]
            IN  node.label \in ContainedLabels =>
                    DefinedInTargets(Latest.graphOverride, node.id)
                       = <<Latest.graphOverride.nodes[1].id>>

\* the speculative ID extraction gives a base class named text
BaseTargetId(text) ==
    generateNodeId("Class", WithProps([filePath |-> STR_unknown, name |-> text]))

ExtendsTargets(rels, classId) ==
    Flatten([r \in DOMAIN rels |->
        IF rels[r].source_node_id = classId /\ rels[r].relationship_type = "EXTENDS"
        THEN <<rels[r].target_node_id>> ELSE <<>>])

\* C6: a class definition with N declared bases, whatever their syntactic
\* form, gets exactly N EXTENDS relationships from that class, in the
\* declaration order of the bases.
C6_InheritanceFanOut ==
    Len(store) > 0 =>
        \A k \in DOMAIN srcTree :
            srcTree[k].kind = "class_definition" =>
                ExtendsTargets(parsed.relationships,
                    generateNodeId("Class",
                        WithProps([filePath |-> srcPath, name |-> srcTree[k].name])))
                  = [j \in DOMAIN srcTree[k].bases |->
                        BaseTargetId(srcTree[k].bases[j].text)]

ID_file_a_py       == <<"f","i","l","e","_","a","_","p","y">>
ID_class_a_py_a    == <<"c","l","a","s","s","_","a","_","p","y","_","a">>
ID_func_a_py_m_2   == <<"f","u","n","c","_","a","_","p","y","_","m","_","2">>
ID_class_unknown_b == <<"c","l","a","s","s","_","u","n","k","n","o","w","n","_","b">>
ID_class_unknown_c == <<"c","l","a","s","s","_","u","n","k","n","o","w","n","_","c">>

IsEndToEndRun ==
    Len(store) > 0 /\ srcPath = STR_a_py /\ srcTree = <<EndToEndClass>>

NodeLabelPairs(nodes) == {<<nodes[i].id, nodes[i].label>> : i \in DOMAIN nodes}

\* C7: a file holding only class A(B, C) with one method m yields exactly
\* the nodes File, Class A, Function m and exactly the relationships
\* A DEFINED_IN File, m DEFINED_IN File, A EXTENDS B, A EXTENDS C and
\* A HAS_METHOD m.
C7_EndToEnd ==
    IsEndToEndRun =>
        /\ Len(parsed.nodes) = 3
        /\ NodeLabelPairs(parsed.nodes)
             = {<<ID_file_a_py, "File">>, <<ID_class_a_py_a, "Class">>,
                <<ID_func_a_py_m_2, "Function">>}
        /\ Len(parsed.relationships) = 5
        /\ RelTriples(parsed)
             = {<<ID_class_a_py_a, ID_file_a_py, "DEFINED_IN">>,
                <<ID_func_a_py_m_2, ID_file_a_py, "DEFINED_IN">>,
                <<ID_class_a_py_a, ID_class_unknown_b, "EXTENDS">>,
                <<ID_class_a_py_a, ID_class_unknown_c, "EXTENDS">>,
                <<ID_class_a_py_a, ID_func_a_py_m_2, "HAS_METHOD">>}
        /\ NodeIds(Latest.graphOverride) = NodeIds(parsed)
        /\ RelTriples(Latest.graphOverride) = RelTriples(parsed)

C7_Witness == IsEndToEndRun /\ Len(Latest.graphOverride.relationships) = 5

\* outcomes that indexFiles is to count as failed
Failures == {"readFailed", "parseFailed", "publishFailed"}

CountOf(kinds) == Cardinality({i \in DOMAIN outcomes : outcomes[i] \in kinds})

\* the paths of the first n files of the batch that failed, in batch order
RECURSIVE FailingPaths(_)
FailingPaths(n) ==
    IF n = 0 THEN <<>>
    ELSE IF outcomes[n] \in Failures
           THEN Append(FailingPaths(n - 1), filePaths[n])
           ELSE FailingPaths(n - 1)

ErrorPaths == [i \in DOMAIN results.errors |-> results.errors[i].path]

\* C8: whichever files of a batch fail to be read, extracted or published,
\* indexFiles goes on to every later file: between files and at the return
\* every path taken so far has been dealt with, and at the return that is
\* the whole batch; failed counts the failing files, success the files that
\* were published, and the error list names the failing files, in order.
C8_PartialFailure ==
    /\ pc \in {"loop", "done"} => Len(outcomes) = pos
    /\ pc = "done" => pos = Len(filePaths)
    /\ results.failed = CountOf(Failures)
    /\ results.success = CountOf({"published"})
    /\ results.success = Len(store)
    /\ Len(results.indexed) = results.success
    /\ ErrorPaths = FailingPaths(Len(outcomes))

\* a batch of three whose second file failed has been indexed
C8_Witness ==
    /\ pc = "done"
    /\ Len(filePaths) = 3
    /\ outcomes[1] = "published" /\ outcomes[2] \in Failures /\ outcomes[3] = "published"
    /\ results.success = 2 /\ results.failed = 1 /\ results.skipped = 0
    /\ ErrorPaths = <<filePaths[2]>>

\* the ID a reference to `name` gets while its file of origin is unknown
SpeculativeId(label, name) ==
    generateNodeId(label, WithProps([filePath |-> STR_unknown, name |-> name,
                                     startLine |-> 0]))

PublishedNodes ==
    UNION {{store[m].graphOverride.nodes[i] : i \in DOMAIN store[m].graphOverride.nodes}
             : m \in DOMAIN store}

PublishedRelationships ==
    UNION {{store[m].graphOverride.relationships[i]
              : i \in DOMAIN store[m].graphOverride.relationships}
             : m \in DOMAIN store}

\* the IDs of the published nodes that a speculative CALLS/EXTENDS target names
Candidates(rel) ==
    LET label == IF rel.relationship_type = "EXTENDS" THEN "Class" ELSE "Function"
    IN  {n.id : n \in {x \in PublishedNodes :
                          /\ x.label = label
                          /\ rel.target_node_id = SpeculativeId(label, x.properties.name)}}

\* C12: when a batch has been indexed, every CALLS or EXTENDS relationship
\* whose target is a speculative ID and whose name a Function or Class node
\* of the batch carries points at such a node.
C12_ReferencesResolved ==
    pc = "done" =>
        \A rel \in PublishedRelationships :
            (rel.relationship_type \in {"CALLS", "EXTENDS"} /\ Candidates(rel) # {})
                => rel.target_node_id \in Candidates(rel)

StepsOnAFile == {"read", "extracted", "synthesized", "publishCalled", "publishReturned"}

\* C14: once schema initialization has failed, no file is read, extracted
\* or published in the run.
C14_AbortOnInitFailure ==
    \A i, j \in DOMAIN events :
        (events[i][1] = "initializeFailed" /\ i < j) => events[j][1] \notin StepsOnAFile

CallsFor(index) == {k \in DOMAIN addCalls : addCalls[k].index = index}

\* the memory indexFile is to hand over for a path: the whole extracted
\* graph and the document and metadata rendered from it
CompleteMemory(filePath, now) ==
    LET parseResult == parseFile(filePath, readFile(filePath), now)
        graph == addRelationships(addNodes(NewGraphBuilder, parseResult.nodes),
                                  parseResult.relationships)
    IN  [content |-> generateMemoryContent(graph, filePath, readFile(filePath)),
         metadata |-> generateMetadata(graph, filePath),
         graphOverride |-> [nodes |-> graph.nodes,
                            relationships |-> parseResult.relationships]]

\* C19: the store's add operation is invoked at most once for each file of
\* the batch, with the file's complete document and graph; a file whose
\* call failed got exactly that one call and is counted as failed.
C19_PublishOnce ==
    /\ \A i \in 1 .. Len(filePaths) : Cardinality(CallsFor(i)) <= 1
    /\ \A k \in DOMAIN addCalls :
          addCalls[k].memory = CompleteMemory(filePaths[addCalls[k].index], clock)
    /\ \A i \in DOMAIN outcomes :
          outcomes[i] = "publishFailed" =>
              /\ Cardinality(CallsFor(i)) = 1
              /\ \E e \in DOMAIN results.errors : results.errors[e].path = filePaths[i]
    /\ results.failed >= CountOf({"publishFailed"})

\* the store rejected the first file, and the second was published
C19_Witness ==
    /\ pc = "done"
    /\ Len(outcomes) = 2
    /\ outcomes[1] = "publishFailed" /\ outcomes[2] = "published"
    /\ Len(addCalls) = 2

EventAt(step, index) == {k \in DOMAIN events : events[k] = <<step, index>>}

Precedes(step1, index1, step2, index2) ==
    /\ EventAt(step1, index1) # {}
    /\ \A a \in EventAt(step1, index1), b \in EventAt(step2, index2) : a < b

\* C20: for every file, extraction is over before the document is
\* synthesized and synthesis before the publish call; file i+1 is not
\* started before the publish call of file i has returned.
C20_Ordering ==
    \A i \in 1 .. Len(filePaths) :
        /\ EventAt("synthesized", i) # {}
              => Precedes("extracted", i, "synthesized", i)
        /\ EventAt("publishCalled", i) # {}
              => Precedes("synthesized", i, "publishCalled", i)
        /\ (EventAt("publishCalled", i) # {} /\ EventAt("start", i + 1) # {})
              => Precedes("publishReturned", i, "start", i + 1)

\* two files have been published one after the other
C20_Witness ==
    /\ pc = "done"
    /\ Len(outcomes) >= 2
    /\ outcomes[1] = "published" /\ outcomes[2] = "published"
    /\ Precedes("publishReturned", 1, "start", 2)

SectionLines(content, section) ==
    Flatten([i \in DOMAIN content |->
        IF content[i].section = section THEN <<content[i]>> ELSE <<>>])

ImportStatementCount ==
    Cardinality({k \in DOMAIN srcTree :
        srcTree[k].kind \in {"import_statement", "import_from_statement"}})

ImportNodeCount(graph) ==
    Cardinality({i \in DOMAIN graph.nodes : graph.nodes[i].label = "Import"})

\* the content cap for N imports: min(N, 10) import lines, and exactly when
\* N > 10 one trailer line reading '... and (N-10) more'
CappedAt(content, N) ==
    /\ Len(SectionLines(content, "import")) = Min(N, 10)
    /\ IF N > 10
       THEN SectionLines(content, "more")
              = <<Line("more", TXT_AndMore \o NumToStr(N - 10) \o TXT_More)>>
       ELSE SectionLines(content, "more") = <<>>

\* C9 as stated: with N the number of import statements of the file, the
\* document lists min(N, 10) import lines and, when N > 10, one trailer
\* '... and (N-10) more'.
C9_ContentCapStatements ==
    Len(store) > 0 => CappedAt(Latest.content, ImportStatementCount)

\* C9 amended: with N the number of Import nodes in the graph built for the
\* file (imports of one module share one node), the document lists
\* min(N, 10) import lines and, exactly when N > 10, one trailer
\* '... and (N-10) more'.
C9_ContentCapNodes ==
    Len(store) > 0 => CappedAt(Latest.content, ImportNodeCount(Latest.graphOverride))

TXT_and_5_more == <<".",".","."," ","a","n","d"," ","5"," ","m","o","r","e">>

\* 15 imports: 10 lines and the trailer '... and 5 more'
C9_Witness ==
    /\ Len(store) > 0
    /\ ImportNodeCount(Latest.graphOverride) = 15
    /\ Len(SectionLines(Latest.content, "import")) = 10
    /\ SectionLines(Latest.content, "more") = <<Line("more", TXT_and_5_more)>>


----------------------------------------------------------------------------
(* One GraphBuilder under arbitrary addNodes / addRelationships / clear *)

\* nodes with two IDs, each in two versions that differ in their payload
GraphNode(id, label, name) ==
    [id |-> id, label |-> label, properties |-> [name |-> name]]

NodeSamples ==
    { GraphNode(ID_class_a_py_a, "Class", STR_A),
      GraphNode(ID_class_a_py_a, "Class", <<"a">>),
      GraphNode(ID_func_a_py_m_2, "Function", STR_m),
      GraphNode(ID_func_a_py_m_2, "Function", STR_f),
      GraphNode(<<"w">>, "Widget", STR_f) }

RelSamples ==
    { createRelationship(ID_class_a_py_a, ID_func_a_py_m_2, "HAS_METHOD", {}),
      createRelationship(ID_class_a_py_a, ID_class_unknown_b, "EXTENDS", {}),
      createRelationship(ID_class_a_py_a, ID_func_a_py_m_2, "LIKES", {}) }

InitGraph ==
    /\ IdIdle
    /\ ExIdle
    /\ BatchIdle
    /\ McpIdle
    /\ SmIdle
    /\ gb = NewGraphBuilder
    /\ gbLog = <<>>
    /\ gbRelLog = <<>>

AddNodes ==
    \E nodes \in SeqsUpTo(NodeSamples, MaxCall) :
        /\ Len(gbLog) + Len(nodes) <= MaxAdded
        /\ gb' = addNodes(gb, nodes)
        /\ gbLog' = gbLog \o nodes
        /\ UNCHANGED <<gbRelLog, GbFrame>>

AddRelationships ==
    \E rels \in SeqsUpTo(RelSamples, MaxCall) :
        /\ Len(gb.relationships) + Len(rels) <= MaxRels
        /\ gb' = addRelationships(gb, rels)
        /\ gbRelLog' = gbRelLog \o rels
        /\ UNCHANGED <<gbLog, GbFrame>>

Clear ==
    /\ gb' = clear(gb)
    /\ gbLog' = <<>>
    /\ gbRelLog' = <<>>
    /\ UNCHANGED GbFrame

NextGraph == AddNodes \/ AddRelationships \/ Clear

SpecGraph == InitGraph /\ [][NextGraph]_vars

\* the first node of a sequence that has the given ID
FirstWithId(nodes, id) ==
    nodes[CHOOSE i \in DOMAIN nodes :
             nodes[i].id = id /\ \A j \in 1 .. (i - 1) : nodes[j].id # id]

\* C10: after any sequence of addNodes calls no two stored nodes share an
\* ID, the node stored for an ID is the first one added with it, and the ID
\* index holds exactly the IDs of the stored nodes.
C10_FirstWins ==
    /\ \A i, j \in DOMAIN gb.nodes : gb.nodes[i].id = gb.nodes[j].id => i = j
    /\ {gb.nodes[i].id : i \in DOMAIN gb.nodes} = {gbLog[i].id : i \in DOMAIN gbLog}
    /\ \A i \in DOMAIN gb.nodes : gb.nodes[i] = FirstWithId(gbLog, gb.nodes[i].id)
    /\ DOMAIN gb.nodeIndex = {gb.nodes[i].id : i \in DOMAIN gb.nodes}
    /\ \A i \in DOMAIN gb.nodes : gb.nodeIndex[gb.nodes[i].id] = gb.nodes[i]

\* a later node with a stored ID and another payload was added and dropped
C10_Witness ==
    /\ Len(gb.nodes) = 2
    /\ \E i \in DOMAIN gbLog :
          \E j \in DOMAIN gb.nodes :
              gbLog[i].id = gb.nodes[j].id /\ gbLog[i] # gb.nodes[j]

\* C11: addRelationships appends what it is given, in call order: the stored
\* relationships are exactly the relationships handed over since
\* construction or clear(), duplicates and dangling endpoints included, and
\* a call changes neither the stored nodes nor the ID index.
C11_AppendOnly ==
    /\ [](gb.relationships = gbRelLog)
    /\ [][gbRelLog' # gbRelLog /\ gbRelLog' # <<>>
            => gb'.nodes = gb.nodes /\ gb'.nodeIndex = gb.nodeIndex]_vars

\* the same relationship is stored twice, and a stored relationship has a
\* target that no stored node carries
C11_Witness ==
    /\ \E i, j \in DOMAIN gb.relationships :
          i < j /\ gb.relationships[i] = gb.relationships[j]
    /\ \E i \in DOMAIN gb.relationships :
          \A k \in DOMAIN gb.nodes :
              gb.nodes[k].id # gb.relationships[i].target_node_id

\* C18: the graph that buildGraphOverride returns holds no node whose label
\* is outside the catalog's node types and no relationship whose type is
\* outside its relationship types.
C18_ClosedVocabulary ==
    /\ \A i \in DOMAIN buildGraphOverride(gb).nodes :
          buildGraphOverride(gb).nodes[i].label \in NodeLabels
    /\ \A i \in DOMAIN buildGraphOverride(gb).relationships :
          buildGraphOverride(gb).relationships[i].relationship_type
              \in DOMAIN RelationshipTypes

----------------------------------------------------------------------------
(* CodeIndexer.initialize and SchemaManager.initializeSchema, called by     *)
(* several callers of the process's one CodeIndexer; a step runs from one   *)
(* await to the next                                                        *)

SchemaId(n) == <<"schema", n>>

\* CODE_SCHEMA.name, and the names of other schemas a store may hold
STR_CodeGraph    == <<"C","o","d","e","G","r","a","p","h">>
STR_CodeGraph_v1 == STR_CodeGraph \o <<"_","v","1">>
STR_CodeGraph_v0 == STR_CodeGraph \o <<"_","v","0">>
STR_Notes        == <<"N","o","t","e","s">>

\* a schema as listSchemas returns it
Schema(id, name) == [id |-> id, name |-> name]

\* schemas.find(...) found nothing
NoSchema == Schema(<<>>, <<>>)

\* Array.prototype.find: the first element of the list that satisfies the
\* test, NoSchema when there is none
RECURSIVE FindFirst(_, _)
FindFirst(schemas, matching) ==
    IF schemas = <<>> THEN NoSchema
    ELSE IF Head(schemas) \in matching THEN Head(schemas)
    ELSE FindFirst(Tail(schemas), matching)

\* findExistingSchema on the list the store returned
findExistingSchema(schemas) ==
    FindFirst(schemas, {s \in Range(schemas) :
                           s.name = STR_CodeGraph_v1 \/ Includes(s.name, STR_CodeGraph)})

\* the lookup in the catch block of the client's createSchema
findByName(schemas) ==
    FindFirst(schemas, {s \in Range(schemas) : s.name = STR_CodeGraph_v1})

\* what cacheSchema writes
cacheSchema(schemaId) == [schemaId |-> schemaId, fresh |-> TRUE]

\* loadCachedSchema: the cached id when the file is there and younger than
\* thirty days, null otherwise
loadCachedSchema(file) == IF file.fresh THEN file.schemaId ELSE <<>>

\* the ixVars initialize() does not write
ixVarsButInitialized ==
    <<filePaths, options, pos, pc, results, outcomes, addCalls, events>>

InitFrame == <<idVars, exVars, gbVars, ixVarsButInitialized, envVars, mcpVars>>

\* a caller with no call pending; ret is what initializeSchema returned to
\* it last, found the schema findExistingSchema gave it, storeCreated
\* whether the store created a schema on its request
IdleCaller ==
    [pc |-> "idle", cached |-> <<>>, found |-> NoSchema,
     ret |-> [schemaId |-> <<>>, created |-> FALSE], storeCreated |-> FALSE]

At(c, label) == callers[c].pc = label

Goto(c, label) == callers' = [callers EXCEPT ![c].pc = label]

\* listSchemas: the store's list, or [] when the request fails
ListSchemas(listed) == IF listed THEN serverSchemas ELSE <<>>

Listings == {TRUE} \cup {FALSE : f \in faults \cap {"schema"}}

\* initializeSchema returns { schemaId, created } to initialize(), after
\* cacheSchema when the id is new to the cache; initialize() sets
\* this.initialized
SchemaReady(c, schemaId, created, toCache, found, storeCreated) ==
    /\ \E written \in {TRUE} \cup {FALSE : f \in faults \cap {"cache"}} :
          schemaCacheFile' = IF toCache /\ written THEN cacheSchema(schemaId)
                             ELSE schemaCacheFile
    /\ initialized' = TRUE
    /\ callers' = [callers EXCEPT
                      ![c].pc = "returned",
                      ![c].found = found,
                      ![c].storeCreated = storeCreated,
                      ![c].ret = [schemaId |-> schemaId, created |-> created]]

\* initializeSchema throws and initialize() returns { success: false }
SchemaFailed(c) ==
    /\ Goto(c, "returned")
    /\ UNCHANGED <<initialized, schemaCacheFile>>

\* initialize(), called directly or by indexFile when this.initialized is
\* false: returns at once when initialized, otherwise starts initializeSchema
\* and waits for the cache file to be read
CallInitialize(c) ==
    /\ At(c, "idle")
    /\ IF initialized
         THEN Goto(c, "returned") /\ UNCHANGED schemaStarts
         ELSE /\ schemaStarts < MaxStarts
              /\ schemaStarts' = schemaStarts + 1
              /\ callers' = [callers EXCEPT ![c] =
                                [IdleCaller EXCEPT !.pc = "loadCachedSchema"]]
    /\ UNCHANGED <<initialized, createRequests, serverSchemas, schemaCacheFile,
                   InitFrame>>

\* 1. check local cache first
LoadCachedSchema(c) ==
    /\ At(c, "loadCachedSchema")
    /\ LET cached == loadCachedSchema(schemaCacheFile)
       IN  callers' = [callers EXCEPT
                          ![c].cached = cached,
                          ![c].pc = IF cached # <<>> THEN "verifySchemaExists"
                                    ELSE "findExistingSchema"]
    /\ UNCHANGED <<initialized, schemaStarts, createRequests, serverSchemas,
                   schemaCacheFile, InitFrame>>

\* verifySchemaExists: listSchemas answers, or fails and counts as absent
VerifySchemaExists(c) ==
    /\ At(c, "verifySchemaExists")
    /\ \E listed \in Listings :
          IF \E s \in Range(ListSchemas(listed)) : s.id = callers[c].cached
            THEN SchemaReady(c, callers[c].cached, FALSE, FALSE, NoSchema, FALSE)
            ELSE /\ Goto(c, "findExistingSchema")
                 /\ UNCHANGED <<initialized, schemaCacheFile>>
    /\ UNCHANGED <<schemaStarts, createRequests, serverSchemas, InitFrame>>

\* 2. search for an existing schema on the server, 3. else create one: the
\* POST is sent
FindExistingSchema(c) ==
    /\ At(c, "findExistingSchema")
    /\ \E listed \in Listings :
          LET existing == findExistingSchema(ListSchemas(listed))
          IN  IF existing # NoSchema
                THEN SchemaReady(c, existing.id, FALSE, TRUE, existing, FALSE)
                ELSE /\ Goto(c, "createSchema")
                     /\ UNCHANGED <<initialized, schemaCacheFile>>
    /\ UNCHANGED <<schemaStarts, createRequests, serverSchemas, InitFrame>>

\* the POST /v1/schemas reaches the store, which creates the schema, answers
\* that it already exists, or refuses the request
CreateSchema(c) ==
    /\ At(c, "createSchema")
    /\ createRequests' = createRequests + 1
    /\ \/ /\ serverSchemas' =
                Append(serverSchemas,
                       Schema(SchemaId(Len(serverSchemas) + 1), STR_CodeGraph_v1))
          /\ SchemaReady(c, SchemaId(Len(serverSchemas) + 1), TRUE, TRUE,
                         NoSchema, TRUE)
       \/ /\ findByName(serverSchemas) # NoSchema
          /\ Goto(c, "listSchemas")
          /\ UNCHANGED <<initialized, serverSchemas, schemaCacheFile>>
       \/ /\ "schema" \in faults
          /\ SchemaFailed(c)
          /\ UNCHANGED serverSchemas
    /\ UNCHANGED <<schemaStarts, InitFrame>>

\* the store answered 'already exists': the catch block of the client's
\* createSchema looks the schema up by name and returns it as a success, or
\* throws the error on to SchemaManager.createSchema
ListSchemasAfterDuplicate(c) ==
    /\ At(c, "listSchemas")
    /\ \E listed \in Listings :
          LET existingSchema == findByName(ListSchemas(listed))
          IN  IF existingSchema # NoSchema
                THEN SchemaReady(c, existingSchema.id, TRUE, TRUE, NoSchema, FALSE)
                ELSE /\ Goto(c, "findAfterDuplicate")
                     /\ UNCHANGED <<initialized, schemaCacheFile>>
    /\ UNCHANGED <<schemaStarts, createRequests, serverSchemas, InitFrame>>

\* the catch block of SchemaManager.createSchema: 'already exists' in the
\* message, so findExistingSchema is tried before the error is thrown on
FindAfterDuplicate(c) ==
    /\ At(c, "findAfterDuplicate")
    /\ \E listed \in Listings :
          LET existing == findExistingSchema(ListSchemas(listed))
          IN  IF existing # NoSchema
                THEN SchemaReady(c, existing.id, TRUE, TRUE, existing, FALSE)
                ELSE SchemaFailed(c)
    /\ UNCHANGED <<schemaStarts, createRequests, serverSchemas, InitFrame>>

\* the caller has its answer and may call again
Returned(c) ==
    /\ At(c, "returned")
    /\ Goto(c, "idle")
    /\ UNCHANGED <<initialized, schemaStarts, createRequests, serverSchemas,
                   schemaCacheFile, InitFrame>>

CacheFileSamples ==
    { NoCacheFile,
      [schemaId |-> SchemaId(1), fresh |-> TRUE],
      [schemaId |-> SchemaId(1), fresh |-> FALSE],
      [schemaId |-> SchemaId(0), fresh |-> TRUE] }

StoreSamples ==
    { <<>>,
      <<Schema(SchemaId(1), STR_CodeGraph_v1)>>,
      <<Schema(SchemaId(1), STR_CodeGraph_v0)>>,
      <<Schema(SchemaId(1), STR_Notes)>> }

\* a new process: one CodeIndexer, not initialized, nothing pending
InitInitialize ==
    /\ IdIdle
    /\ ExIdle
    /\ GbIdle
    /\ McpIdle
    /\ filePaths = <<>>
    /\ options = DefaultOptions
    /\ initialized = FALSE
    /\ pos = 0
    /\ pc = "idle"
    /\ results = NewResults
    /\ outcomes = <<>>
    /\ addCalls = <<>>
    /\ events = <<>>
    /\ faults \in {{}, {"schema", "cache"}}
    /\ callers = [c \in 1 .. MaxCallers |-> IdleCaller]
    /\ schemaStarts = 0
    /\ createRequests = 0
    /\ serverSchemas \in StoreSamples
    /\ schemaCacheFile \in CacheFileSamples

NextInitialize ==
    \E c \in 1 .. MaxCallers :
        CallInitialize(c) \/ LoadCachedSchema(c) \/ VerifySchemaExists(c)
          \/ FindExistingSchema(c) \/ CreateSchema(c)
          \/ ListSchemasAfterDuplicate(c) \/ FindAfterDuplicate(c)
          \/ Returned(c)

SpecInitialize == InitInitialize /\ [][NextInitialize]_vars

----------------------------------------------------------------------------
(* Claims about handleIndexCodebase and indexDirectory                      *)

\* every file at any depth under a directory, by full path
RECURSIVE AllFiles(_, _)
AllFiles(dir, entries) ==
    IF entries = <<>> THEN {}
    ELSE LET entry    == Head(entries)
             fullPath == PathJoin(dir, entry.name)
         IN  (IF entry.isDirectory THEN AllFiles(fullPath, entry.entries)
              ELSE {fullPath})
               \cup AllFiles(dir, Tail(entries))

FilesUnderRoot == AllFiles(dirTree.path, dirTree.entries)

\* C17: once findCodeFiles has returned, every file at any depth under the
\* root that the inclusion rules accept (extension on the allow-list, no
\* ignored directory in its path, not an excluded test or generated file) is
\* in the list handed to indexFiles.
C17_RecursiveEnumeration ==
    pc = "loop" =>
        \A f \in FilesUnderRoot :
            shouldIndexFile(f, options) => f \in Range(filePaths)

NoExtractor(f) == getParser(detectLanguage(f)) = <<>>

\* indexDirectory has returned the summary of indexFiles (the summary of its
\* catch block has no list of indexed files)
DirectoryIndexed == pc = "done" /\ "indexed" \in DOMAIN results

\* C13 as stated: when indexDirectory returns, skipped counts every file
\* under the root that is filtered out or has no registered extractor, and
\* none of them is counted in failed or listed in errors.
C13_FilteredAreSkipped ==
    DirectoryIndexed =>
        /\ results.skipped =
              Cardinality({f \in FilesUnderRoot :
                              ~shouldIndexFile(f, options) \/ NoExtractor(f)})
        /\ \A i \in DOMAIN results.errors :
              /\ shouldIndexFile(results.errors[i].path, options)
              /\ ~NoExtractor(results.errors[i].path)

\* C13 amended: a file the inclusion rules filter out is not handed to
\* indexFiles and is counted in no counter; a file that is handed over and
\* whose language has no registered extractor is counted in skipped; neither
\* is counted in failed nor listed in errors.
C13_UnsupportedAreSkipped ==
    DirectoryIndexed =>
        /\ \A f \in FilesUnderRoot :
              ~shouldIndexFile(f, options) => f \notin Range(filePaths)
        /\ results.success + results.skipped + results.failed = Len(filePaths)
        /\ results.skipped =
              Cardinality({i \in DOMAIN filePaths : NoExtractor(filePaths[i])})
        /\ results.failed = Len(results.errors)
        /\ \A i \in DOMAIN results.errors :
              /\ shouldIndexFile(results.errors[i].path, options)
              /\ ~NoExtractor(results.errors[i].path)

\* a directory holding a filtered-out file and a JavaScript file has been
\* indexed, and the JavaScript file was skipped
C13_Witness ==
    /\ DirectoryIndexed
    /\ PathJoin(STR_r, STR_a_md) \in FilesUnderRoot
    /\ PathJoin(STR_r, STR_t_js) \in Range(filePaths)
    /\ results.skipped = 1

\* C15 as stated: the error list of the summary indexFiles and
\* indexDirectory return never has more entries than the fixed cap.
C15_SummaryErrorsCapped == Len(results.errors) <= ErrorCap

\* C15 amended: the summary indexFiles and indexDirectory return lists one
\* error for every failing file; the cap is applied by handleIndexCodebase,
\* whose response lists the first ErrorCap errors of the summary and no more.
C15_ResponseErrorsCapped ==
    /\ DirectoryIndexed => Len(results.errors) = results.failed
    /\ pc = "responded" /\ "errors" \in DOMAIN response =>
          /\ Len(response.errors) <= ErrorCap
          /\ response.errors = Slice(results.errors, ErrorCap)
          /\ response.failed_count = results.failed

\* more files than the cap failed in one run and the handler has answered
C15_Witness ==
    /\ pc = "responded"
    /\ "errors" \in DOMAIN response
    /\ results.failed > ErrorCap
    /\ Len(response.errors) = ErrorCap

\* C16: in any interleaving of initialize() and indexFile() calls on the
\* process's CodeIndexer, initializeSchema is started at most once and at
\* most one schema-creation request reaches the store.
C16_RegistrationOnce == schemaStarts <= 1 /\ createRequests <= 1

----------------------------------------------------------------------------
(* Claims about sanitizeForId and shouldIndexFile                           *)

\* C26: sanitizeForId is idempotent: for the path and the name of every key
\* generateNodeId is called with, sanitizing the sanitized string gives the
\* sanitized string again.
C26_SanitizeIdempotent ==
    idCalled =>
        \A s \in {idKey[1], idKey[2]} :
            sanitizeForId(sanitizeForId(s)) = sanitizeForId(s)

\* the components of a path: the names between its separators
RECURSIVE Components(_)
Components(p) ==
    IF p = <<>> THEN {}
    ELSE LET I    == {i \in DOMAIN p : p[i] = "/"}
             stop == IF I = {} THEN Len(p) + 1
                     ELSE CHOOSE i \in I : \A j \in I : i <= j
         IN  {SubSeq(p, 1, stop - 1)} \cup Components(SubSeq(p, stop + 1, Len(p)))

\* C27: of the files under an indexed root, one with a supported extension
\* that is neither test nor generated code, and none of whose components is
\* an ignored name, is accepted by shouldIndexFile.
C27_IgnoreByComponent ==
    pc = "loop" =>
        \A f \in FilesUnderRoot :
            ( /\ Components(f) \cap IGNORE_PATTERNS = {}
              /\ detectLanguage(f) # <<>>
              /\ \A pattern \in testPatterns \cup generatedPatterns :
                    ~Includes(f, pattern) )
            => shouldIndexFile(f, options)

----------------------------------------------------------------------------
(* Claims about the summary indexFiles returns                              *)

\* C29: when indexFiles returns for a list of n paths, success + failed +
\* skipped = n, the errors list has exactly failed entries and the indexed
\* list exactly success entries, whatever mix of outcomes occurred.
C29_CountersPartition ==
    pc = "done" =>
        /\ results.success + results.failed + results.skipped = Len(filePaths)
        /\ Len(results.errors) = results.failed
        /\ Len(results.indexed) = results.success

\* a batch of three has returned with one file published, one failed and
\* one skipped
C29_Witness ==
    /\ pc = "done"
    /\ Len(filePaths) = 3
    /\ results.success = 1 /\ results.failed = 1 /\ results.skipped = 1

\* C30: every entry of the errors list carries the path of the failing file
\* and a defined, non-empty error message, whether the file failed to be
\* read, extracted or published.
C30_ErrorsCarryMessage ==
    /\ ErrorPaths = FailingPaths(Len(outcomes))
    /\ \A i \in DOMAIN results.errors :
          results.errors[i].error \notin {Undefined, ""}

----------------------------------------------------------------------------
(* Claims about SchemaManager.initializeSchema                              *)

\* C25: a schema that initializeSchema reuses from the store's list has the
\* catalog name CodeGraph_v1, and a create request is sent only when the
\* store holds no schema of that name.
C25_ReuseByName ==
    /\ [](\A c \in DOMAIN callers :
             callers[c].found # NoSchema => callers[c].found.name = STR_CodeGraph_v1)
    /\ [][createRequests' > createRequests => findByName(serverSchemas) = NoSchema]_vars

\* C28: initializeSchema returns created = true only to a call on whose
\* request the store created a schema.
C28_CreatedMeansCreated ==
    \A c \in DOMAIN callers : callers[c].ret.created => callers[c].storeCreated

----------------------------------------------------------------------------
(* Claims about methods, decorators, base classes and topics                *)

\* the relationships of one type, by source and by source and target
RelsFrom(rels, sourceId, type) ==
    {r \in DOMAIN rels : /\ rels[r].source_node_id = sourceId
                         /\ rels[r].relationship_type = type}

RelsBetween(rels, sourceId, targetId, type) ==
    {r \in RelsFrom(rels, sourceId, type) : rels[r].target_node_id = targetId}

NodesLabelled(nodes, label) ==
    {nodes[i].id : i \in {j \in DOMAIN nodes : nodes[j].label = label}}

\* C21: for every class of the file and every function defined directly in
\* its body, decorated or not, the parse result holds exactly one HAS_METHOD
\* relationship from the class to the function, and the target is the ID of
\* a Function node of the parse result.
C21_HasMethodPerMember ==
    Len(store) > 0 =>
        \A i \in DOMAIN ClassMatches(srcTree) :
            LET cls     == ClassMatches(srcTree)[i]
                methods == MethodsOf(cls.def, cls.decoratedLine)
            IN  \A j \in DOMAIN methods :
                    /\ FunctionIdOf(methods[j], srcPath)
                          \in NodesLabelled(parsed.nodes, "Function")
                    /\ Cardinality(RelsBetween(parsed.relationships,
                                               ClassIdOf(cls, srcPath),
                                               FunctionIdOf(methods[j], srcPath),
                                               "HAS_METHOD")) = 1

\* the decorators of the matches that share a node ID
DecoratorsOn(matches, ids, id) ==
    SumSeq([i \in DOMAIN matches |->
               IF ids[i] = id THEN Len(matches[i].def.decorators) ELSE 0])

\* C22: a decorated function or class has one DECORATED_WITH relationship
\* for each of its decorators, and the target of every DECORATED_WITH
\* relationship is the ID of a Decorator node of the parse result.
C22_DecoratedWith ==
    Len(store) > 0 =>
        LET funcs   == FunctionMatches(srcTree)
            classes == ClassMatches(srcTree)
            funcIds == [i \in DOMAIN funcs |-> FunctionIdOf(funcs[i], srcPath)]
            classIds == [i \in DOMAIN classes |-> ClassIdOf(classes[i], srcPath)]
        IN  /\ \A i \in DOMAIN funcs :
                  Cardinality(RelsFrom(parsed.relationships, funcIds[i], "DECORATED_WITH"))
                     = DecoratorsOn(funcs, funcIds, funcIds[i])
            /\ \A i \in DOMAIN classes :
                  Cardinality(RelsFrom(parsed.relationships, classIds[i], "DECORATED_WITH"))
                     = DecoratorsOn(classes, classIds, classIds[i])
            /\ \A r \in DOMAIN parsed.relationships :
                  parsed.relationships[r].relationship_type = "DECORATED_WITH" =>
                      parsed.relationships[r].target_node_id
                          \in NodesLabelled(parsed.nodes, "Decorator")

\* the texts of the 'Extends:' lines in the block the document has for the
\* class of a given name: from its heading to the next blank line
ExtendsTexts(content, name) ==
    LET headings == {i \in DOMAIN content :
                        content[i] = Line("class", TXT_H3 \o name)}
    IN  IF headings = {} THEN {}
        ELSE LET start  == CHOOSE i \in headings : \A j \in headings : i <= j
                 blanks == {j \in DOMAIN content :
                               j > start /\ content[j].section = "blank"}
                 stop   == CHOOSE j \in blanks : \A k \in blanks : j <= k
             IN  {content[k].text : k \in {l \in start .. stop :
                                              content[l].section = "extends"}}

\* C23: for every class of the file that declares a base class named B, the
\* document rendered for the file has B's name in the 'Extends:' line of
\* that class.
C23_ExtendsLineNamesBase ==
    Len(store) > 0 =>
        \A k \in DOMAIN srcTree :
            srcTree[k].kind = "class_definition" =>
                \A j \in DOMAIN srcTree[k].bases :
                    srcTree[k].bases[j].type \in {"identifier", "attribute"} =>
                        \E text \in ExtendsTexts(Latest.content, srcTree[k].name) :
                            Includes(text, srcTree[k].bases[j].text)

\* the file's graph has a node of the label that is defined in the file
HasDefined(graph, label) ==
    FilterNodes(graph, label, graph.nodes[1].id, "DEFINED_IN") # <<>>

\* the distinct topics the path contributes besides 'code' and the language
PathTopicCount(filePath) ==
    Cardinality(Range(PathTopics(filePath)) \ {STR_code, STR_python})

NoDuplicates(seq) == Cardinality(Range(seq)) = Len(seq)

\* C24 as stated: for every file path the topics contain 'classes' when the
\* file's graph has a Class node defined in the file and 'functions' when it
\* has such a Function node, without duplicates and with at most 10 entries.
C24_FlagsAlwaysListed ==
    Len(store) > 0 =>
        LET topics == Latest.metadata.topics
        IN  /\ HasDefined(Latest.graphOverride, "Class") => STR_classes \in Range(topics)
            /\ HasDefined(Latest.graphOverride, "Function")
                  => STR_functions \in Range(topics)
            /\ NoDuplicates(topics)
            /\ Len(topics) <= 10

\* C24 amended: the flags come after 'code', the language and the path
\* topics and the list is cut after 10 entries, so 'classes' is listed when
\* the path contributes at most 7 distinct topics and 'functions' when the
\* path topics and 'classes', if listed, are at most 7; the list has no
\* duplicates and at most 10 entries for every path.
C24_FlagsListedWithinCap ==
    Len(store) > 0 =>
        LET topics  == Latest.metadata.topics
            classes == HasDefined(Latest.graphOverride, "Class")
            before  == PathTopicCount(srcPath)
                         + (IF classes /\ STR_classes \notin Range(PathTopics(srcPath))
                            THEN 1 ELSE 0)
        IN  /\ classes /\ PathTopicCount(srcPath) <= 7 => STR_classes \in Range(topics)
            /\ HasDefined(Latest.graphOverride, "Function") /\ before <= 7
                  => STR_functions \in Range(topics)
            /\ NoDuplicates(topics)
            /\ Len(topics) <= 10

\* a file with a class and a method, seven segments deep, has been indexed:
\* 'classes' is the tenth topic and 'functions' is cut
C24_Witness ==
    /\ Len(store) > 0
    /\ srcPath = DeepPath(7)
    /\ HasDefined(Latest.graphOverride, "Class")
    /\ HasDefined(Latest.graphOverride, "Function")
    /\ Len(Latest.metadata.topics) = 10
    /\ Latest.metadata.topics[10] = STR_classes

====
